---- MODULE Spec2Model ----
(***************************************************************************)
(* A model of the fstr string-templating library (crazywolf132/fstr).      *)
(*                                                                         *)
(* Strings are sequences of tokens.  A token is one character of a format  *)
(* string ("{", "}", ":", ".", a digit, a letter) or an atomic piece of    *)
(* text that the code never looks inside (a field name such as "Detail",   *)
(* an argument text such as "X", a sentinel such as "<no value>").         *)
(*                                                                         *)
(* Go indices are 0-based; At and Slice keep the source's arithmetic.      *)
(***************************************************************************)
EXTENDS Integers, Sequences, FiniteSets, TLC

VARIABLES
    format,        \* the format string of the call under way
    args,          \* its argument list (a sequence of values)
    pc,            \* position of the sequential caller
    parsed,        \* Sprintf: [segments, placeholders] returned by parseFormatFast
    result,        \* the call's outcome: [panic, s: the string returned,
                   \* pieces: the text written for each placeholder, in order]
    globalCache,   \* globalCache.cache (cache.go): format -> parsedFormat
    formatCache,   \* formatCache, the sync.Map of the cached Sprintf:
                   \* format -> parsedResult
    mu,            \* globalCache.mu: [readers: the callers holding RLock,
                   \* writer: the caller holding Lock, or NoOne]
    calls,         \* per caller, the call under way: [pc, op, format, args, pf,
                   \* result]
    formatters,    \* the registry of formatters.go: type -> Formatter
    regLog,        \* history: the RegisterFormatter calls made, in order
    got,           \* what the last GetFormatter call returned
    verbs,         \* the verbs map of formatters.go: name -> FormattingVerb
    fmtMutex       \* fmtMutex: [readers, writer], as mu

\* the state of one uncached Sprintf call
svars == <<format, args, pc, parsed, result>>

\* the caches, the registry and their callers
fvars ==
    <<globalCache, formatCache, mu, calls, formatters, regLog, got, verbs, fmtMutex>>

vars == <<svars, fvars>>

----------------------------------------------------------------------------
(* Bounds of the model *)

\* the number of chunks a format string is assembled from
MaxChunks == 3
\* the longest argument list
MaxArgs == 2

----------------------------------------------------------------------------
(* Strings *)

\* data[i] with a 0-based index
At(data, i) == data[i + 1]

\* data[lo:hi] with 0-based, half-open bounds
Slice(data, lo, hi) == SubSeq(data, lo + 1, hi)

RECURSIVE Concat(_)
\* the concatenation of a sequence of strings
Concat(ss) == IF ss = <<>> THEN <<>> ELSE Head(ss) \o Concat(Tail(ss))

RECURSIVE IndexByte(_, _, _)
\* the 0-based index of the first c in data at or after index i, or -1
IndexByte(data, c, i) ==
    IF i >= Len(data) THEN -1
    ELSE IF At(data, i) = c THEN i
    ELSE IndexByte(data, c, i + 1)

RECURSIVE Split(_, _)
\* strings.Split(s, sep) for a one-token separator
Split(s, sep) ==
    LET j == IndexByte(s, sep, 0)
    IN  IF j = -1 THEN <<s>>
        ELSE <<Slice(s, 0, j)>> \o Split(Slice(s, j + 1, Len(s)), sep)

Digits == {"0", "1", "2", "3", "4", "5"}

DigitVal(c) ==
    CASE c = "0" -> 0 [] c = "1" -> 1 [] c = "2" -> 2 [] c = "3" -> 3 [] c = "4" -> 4
      [] c = "5" -> 5

\* the number of bytes of a token in UTF-8: "crab" stands for the one
\* character U+1F980, of four bytes, and the words are ASCII
Bytes(c) ==
    CASE c = "crab" -> 4
      [] c = "Wonderland" -> 10
      [] c = "Alice" -> 5
      [] c = "a@b" -> 3
      [] OTHER -> 1

RECURSIVE ByteLen(_)
\* len(s): the length of a string in bytes
ByteLen(s) == IF s = <<>> THEN 0 ELSE Bytes(Head(s)) + ByteLen(Tail(s))

RECURSIVE SliceBytes(_, _)
\* s[:n] for n <= len(s): the characters that lie within the first n bytes,
\* and the stump of the one that the cut goes through
SliceBytes(s, n) ==
    IF n <= 0 \/ s = <<>> THEN <<>>
    ELSE IF Bytes(Head(s)) <= n THEN <<Head(s)>> \o SliceBytes(Tail(s), n - Bytes(Head(s)))
    ELSE <<"stump">>

RECURSIVE ParseInt(_)
\* strconv.ParseInt(s, 10, 64) of a non-empty digit string (no overflow at
\* the lengths the model reaches)
ParseInt(s) ==
    IF Len(s) = 1 THEN DigitVal(s[1])
    ELSE 10 * ParseInt(SubSeq(s, 1, Len(s) - 1)) + DigitVal(s[Len(s)])

----------------------------------------------------------------------------
(* Sentinels *)

NoValue == <<"<no value>">>
InvalidField == <<"<invalid field>">>
NilText == <<"<nil>">>

----------------------------------------------------------------------------
(* The byte-scanner parser (fstr.go) *)

\* a nil *int
NilIndex == -1

\* the zero placeholder
ZeroPlaceholder == [PositionalIndex |-> NilIndex, FieldChain |-> <<>>, Spec |-> <<>>]

\* the offset of the first '}' in data, or -1
findClosingBraceFast(data) == IndexByte(data, "}", 0)

RECURSIVE scanIndex(_, _, _)
\* the loop of parsePlaceholderFast over a field part that starts with a digit
scanIndex(fieldPart, i, ph) ==
    IF i >= Len(fieldPart)
    THEN [ph EXCEPT !.PositionalIndex = ParseInt(fieldPart)]
    ELSE IF At(fieldPart, i) = "."
    THEN [ph EXCEPT !.PositionalIndex = ParseInt(Slice(fieldPart, 0, i)),
                    !.FieldChain = Split(Slice(fieldPart, i + 1, Len(fieldPart)), ".")]
    ELSE IF At(fieldPart, i) \notin Digits
    THEN ph
    ELSE scanIndex(fieldPart, i + 1, ph)

parsePlaceholderFast(data) ==
    IF Len(data) = 0 THEN ZeroPlaceholder
    ELSE
    LET specStart == IndexByte(data, ":", 0)
        fieldPart == IF specStart >= 0 THEN Slice(data, 0, specStart) ELSE data
        ph == [ZeroPlaceholder EXCEPT
                 !.Spec = IF specStart >= 0
                          THEN Slice(data, specStart + 1, Len(data)) ELSE <<>>]
    IN  IF Len(fieldPart) = 0 THEN ph
        ELSE IF At(fieldPart, 0) \in Digits THEN scanIndex(fieldPart, 0, ph)
        ELSE [ph EXCEPT !.FieldChain = Split(fieldPart, ".")]

RECURSIVE parseLoop(_, _, _, _, _)
\* the scanning loop of parseFormatFast from index i on
parseLoop(data, i, segs, phs, lastSegment) ==
    IF i >= Len(data)
    THEN [segments |-> IF Len(lastSegment) > 0 THEN Append(segs, lastSegment) ELSE segs,
          placeholders |-> phs]
    ELSE IF At(data, i) = "{"
    THEN IF i + 1 < Len(data) /\ At(data, i + 1) = "{"
         THEN parseLoop(data, i + 2, segs, phs, Append(lastSegment, "{"))
         ELSE LET flushed == Append(segs, lastSegment)
                  off == findClosingBraceFast(Slice(data, i + 1, Len(data)))
                  end == off + i + 1
              IN  IF off = -1
                  THEN parseLoop(data, i + 1, flushed, phs, <<"{">>)
                  ELSE parseLoop(data, end + 1, flushed,
                                 Append(phs, parsePlaceholderFast(Slice(data, i + 1, end))),
                                 <<>>)
    ELSE IF At(data, i) = "}"
    THEN IF i + 1 < Len(data) /\ At(data, i + 1) = "}"
         THEN parseLoop(data, i + 2, segs, phs, Append(lastSegment, "}"))
         ELSE parseLoop(data, i + 1, segs, phs, Append(lastSegment, "}"))
    ELSE parseLoop(data, i + 1, segs, phs, Append(lastSegment, At(data, i)))

\* a faulty parser that keeps the format as one literal segment
parseFormatFastRaw(fmt) == [segments |-> <<fmt>>, placeholders |-> <<>>]

parseFormatFast(fmt) == parseLoop(fmt, 0, <<>>, <<>>, <<>>)

----------------------------------------------------------------------------
(* The regex parser (the Go source carried by Makefile) *)

\* the stand-ins that parse puts for "{{" and "}}" (the bytes 0 and 1)
EscOpen == "x00"
EscClose == "x01"

RECURSIVE escapeBraces(_, _)
\* escapedBraceRegex.ReplaceAllStringFunc(format, ...): the leftmost,
\* non-overlapping "{{" and "}}" from index i on, replaced by the stand-ins
escapeBraces(data, i) ==
    IF i >= Len(data) THEN <<>>
    ELSE IF i + 1 < Len(data) /\ At(data, i) = "{" /\ At(data, i + 1) = "{"
    THEN <<EscOpen>> \o escapeBraces(data, i + 2)
    ELSE IF i + 1 < Len(data) /\ At(data, i) = "}" /\ At(data, i + 1) = "}"
    THEN <<EscClose>> \o escapeBraces(data, i + 2)
    ELSE <<At(data, i)>> \o escapeBraces(data, i + 1)

restoreEscapedBraces(s) ==
    [i \in 1..Len(s) |-> IF s[i] = EscOpen THEN "{"
                         ELSE IF s[i] = EscClose THEN "}" ELSE s[i]]

RECURSIVE IndexBrace(_, _)
\* the index of the first brace of data at or after index i, or -1
IndexBrace(data, i) ==
    IF i >= Len(data) THEN -1
    ELSE IF At(data, i) \in {"{", "}"} THEN i
    ELSE IndexBrace(data, i + 1)

RECURSIVE findMatch(_, _)

\* a match of placeholderRegex that opens at s needs the next brace, at e,
\* to be a closing one
matchClose(data, s, e) ==
    IF e # -1 /\ At(data, e) = "}" THEN <<s, e + 1>> ELSE findMatch(data, s + 1)

matchOpen(data, s) ==
    IF s = -1 THEN <<>> ELSE matchClose(data, s, IndexBrace(data, s + 1))

\* the leftmost match <<start, end>> of placeholderRegex `\{([^{}]*)\}` in
\* data at or after pos, or <<>>
findMatch(data, pos) == matchOpen(data, IndexByte(data, "{", pos))

\* the tokens that the class [a-zA-Z0-9_] of nameRegex and colorRegex
\* matches: digits, letters and words made of letters
NameChars ==
    Digits \cup {"a", "n", "v", "x", "City", "Data", "red", "RED", "empty", "none",
                 "some"}

RECURSIVE nameLen(_, _)
\* the end of the longest run of name characters of content that starts at
\* index i
nameLen(content, i) ==
    IF i < Len(content) /\ At(content, i) \in NameChars
    THEN nameLen(content, i + 1)
    ELSE i

\* strconv.Atoi succeeds on a name match exactly when it is all digits
AllDigits(s) == \A i \in 1..Len(s) : s[i] \in Digits

\* the zero FormatSpecifier
ZeroSpecifier ==
    [Width |-> 0, Precision |-> 0, Alignment |-> <<>>, Fill |-> "", Type |-> <<>>,
     Alternate |-> FALSE, Sign |-> <<>>, ZeroPad |-> FALSE]

\* strings.SplitN(s, sep, 2) for a one-token separator
SplitN2At(s, j) ==
    IF j = -1 THEN <<s>> ELSE <<Slice(s, 0, j), Slice(s, j + 1, Len(s))>>

SplitN2(s, sep) == SplitN2At(s, IndexByte(s, sep, 0))

\* strconv.Atoi(s) succeeds: an optional sign and at least one digit
AtoiOk(s) ==
    IF s # <<>> /\ s[1] \in {"+", "-"}
    THEN Len(s) > 1 /\ AllDigits(Tail(s))
    ELSE s # <<>> /\ AllDigits(s)

\* the number strconv.Atoi(s) returns when it succeeds
AtoiVal(s) ==
    IF s[1] = "-" THEN 0 - ParseInt(Tail(s))
    ELSE IF s[1] = "+" THEN ParseInt(Tail(s))
    ELSE ParseInt(s)

\* parseFormatSpecifier: width, precision and type, out of what is left of
\* spec
specParts(fs, spec, parts) ==
    [fs EXCEPT !.Width = IF AtoiOk(parts[1]) THEN AtoiVal(parts[1]) ELSE @,
               !.Precision = IF Len(parts) > 1 /\ AtoiOk(parts[2])
                             THEN AtoiVal(parts[2]) ELSE @,
               !.Type = IF Len(spec) > 0 THEN <<spec[Len(spec)]>> ELSE @]

\* parseFormatSpecifier: zero padding
specZero(fs, spec) ==
    IF spec # <<>> /\ spec[1] = "0"
    THEN specParts([fs EXCEPT !.ZeroPad = TRUE], Tail(spec), SplitN2(Tail(spec), "."))
    ELSE specParts(fs, spec, SplitN2(spec, "."))

\* parseFormatSpecifier: alternate form
specAlternate(fs, spec) ==
    IF spec # <<>> /\ spec[1] = "#"
    THEN specZero([fs EXCEPT !.Alternate = TRUE], Tail(spec))
    ELSE specZero(fs, spec)

\* parseFormatSpecifier: sign
specSign(fs, spec) ==
    IF spec # <<>> /\ spec[1] \in {"+", "-", " "}
    THEN specAlternate([fs EXCEPT !.Sign = <<spec[1]>>], Tail(spec))
    ELSE specAlternate(fs, spec)

\* parseFormatSpecifier: fill character and alignment
specAlign(spec) ==
    IF Len(spec) >= 2 /\ spec[2] \in {"<", ">", "^"}
    THEN specSign([ZeroSpecifier EXCEPT !.Fill = spec[1], !.Alignment = <<spec[2]>>],
                  Slice(spec, 2, Len(spec)))
    ELSE IF Len(spec) >= 1 /\ spec[1] \in {"<", ">", "^"}
    THEN specSign([ZeroSpecifier EXCEPT !.Alignment = <<spec[1]>>], Tail(spec))
    ELSE specSign(ZeroSpecifier, spec)

parseFormatSpecifier(spec) == IF spec = <<>> THEN ZeroSpecifier ELSE specAlign(spec)

\* strings.TrimSpace, blanks being the only white space of the model
RECURSIVE TrimLeft(_)
TrimLeft(s) == IF s # <<>> /\ Head(s) = " " THEN TrimLeft(Tail(s)) ELSE s

RECURSIVE TrimRight(_)
TrimRight(s) ==
    IF s # <<>> /\ s[Len(s)] = " " THEN TrimRight(SubSeq(s, 1, Len(s) - 1)) ELSE s

TrimSpace(s) == TrimRight(TrimLeft(s))

\* the placeholder for a name match (<<>>: nameRegex did not match)
placeholderOf(nameMatch) ==
    [raw |-> <<>>,
     name |-> IF nameMatch # <<>> /\ ~AllDigits(nameMatch) THEN nameMatch ELSE <<>>,
     position |-> IF nameMatch # <<>> /\ AllDigits(nameMatch)
                  THEN ParseInt(nameMatch) ELSE -1,
     specifier |-> ZeroSpecifier,
     color |-> <<>>,
     condition |-> <<>>,
     trueVal |-> <<>>,
     falseVal |-> <<>>]

RECURSIVE IndexOneOf(_, _, _)
\* the index of the first token of cs in data at or after index i, else
\* len(data)
IndexOneOf(data, cs, i) ==
    IF i >= Len(data) \/ At(data, i) \in cs THEN i ELSE IndexOneOf(data, cs, i + 1)

RECURSIVE condStart(_, _)

\* condRegex `\?([^(:]+)\(([^)]*)\):(.*)` tried at the "?" at index i, j being
\* the end of the run of [^(:] after it and k the index of the next ")":
\* the match <<i, j, k>>, else the search goes on after i
condTry(content, i, j, k) ==
    IF /\ j > i + 1 /\ j < Len(content) /\ At(content, j) = "("
       /\ k # -1 /\ k + 1 < Len(content) /\ At(content, k + 1) = ":"
    THEN <<i, j, k>>
    ELSE condStart(content, i + 1)

condFrom(content, i, j) == condTry(content, i, j, IndexByte(content, ")", j + 1))

condQuestion(content, i) ==
    IF i = -1 THEN <<>>
    ELSE condFrom(content, i, IndexOneOf(content, {"(", ":"}, i + 1))

\* the leftmost match of condRegex in content at or after index i, or <<>>
condStart(content, i) == condQuestion(content, IndexByte(content, "?", i))

\* parsePlaceholder: the conditional
condAt(ph, content, cm) ==
    IF cm = <<>> THEN ph
    ELSE [ph EXCEPT !.condition = TrimSpace(Slice(content, cm[1] + 1, cm[2])),
                    !.trueVal = TrimSpace(Slice(content, cm[2] + 1, cm[3])),
                    !.falseVal = TrimSpace(Slice(content, cm[3] + 2, Len(content)))]

parseCond(ph, content) == condAt(ph, content, condStart(content, 0))

RECURSIVE colorStart(_, _)
\* the leftmost match of colorRegex `\|([a-zA-Z0-9_]+)` in content at or
\* after index i: the index of its "|", or -1
colorBar(content, i) ==
    IF i = -1 THEN -1
    ELSE IF i + 1 < Len(content) /\ At(content, i + 1) \in NameChars THEN i
    ELSE colorStart(content, i + 1)

colorStart(content, i) == colorBar(content, IndexByte(content, "|", i))

\* parsePlaceholder: the color; content loses len(colorMatch[0]) characters
\* from its start, wherever the match was found
colorAt(ph, content, i, e) ==
    IF i = -1 THEN parseCond(ph, content)
    ELSE parseCond([ph EXCEPT !.color = Slice(content, i + 1, e)],
                   Slice(content, e - i, Len(content)))

colorFrom(ph, content, i) == colorAt(ph, content, i, nameLen(content, i + 1))

parseColor(ph, content) == colorFrom(ph, content, colorStart(content, 0))

\* parsePlaceholder: the format specifier, specRegex `^:([^|?]*)` ending at
\* index e
specAt(ph, content, e) ==
    parseColor([ph EXCEPT !.specifier = parseFormatSpecifier(Slice(content, 1, e))],
               Slice(content, e, Len(content)))

parseSpec(ph, content) ==
    IF content # <<>> /\ content[1] = ":"
    THEN specAt(ph, content, IndexOneOf(content, {"|", "?"}, 1))
    ELSE parseColor(ph, content)

\* parsePlaceholder: the name or position, n being the length of nameRegex's
\* match
nameAt(content, n) ==
    parseSpec(placeholderOf(Slice(content, 0, n)), Slice(content, n, Len(content)))

\* parsePlaceholder; the method check at its end changes nothing, a name
\* matched by nameRegex holding no "()"
parsePlaceholder(content) == nameAt(content, nameLen(content, 0))

RECURSIVE parseMatches(_, _, _, _, _)

\* one iteration of the loop of parse over matches, and the rest after the
\* last match; the content is cut from format at the offsets of a match in
\* escaped
parseMatch(fmt, escaped, lastPos, literals, phs, match) ==
    IF match = <<>>
    THEN [literals |-> IF lastPos < Len(escaped)
                       THEN Append(literals,
                                   restoreEscapedBraces(Slice(escaped, lastPos, Len(escaped))))
                       ELSE literals,
          placeholders |-> phs]
    ELSE parseMatches(fmt, escaped, match[2],
                      IF match[1] > lastPos
                      THEN Append(literals,
                                  restoreEscapedBraces(Slice(escaped, lastPos, match[1])))
                      ELSE literals,
                      Append(phs,
                             [parsePlaceholder(Slice(fmt, match[1] + 1, match[2] - 1))
                                EXCEPT !.raw = Slice(fmt, match[1], match[2])]))

parseMatches(fmt, escaped, lastPos, literals, phs) ==
    parseMatch(fmt, escaped, lastPos, literals, phs, findMatch(escaped, lastPos))

parse(fmt) == parseMatches(fmt, escapeBraces(fmt, 0), 0, <<>>, <<>>)

----------------------------------------------------------------------------
(* Go values.  Every value is a record whose field k names its kind:       *)
(*   nil interface, string, int, ptr (nil or not), struct, map, and iface: *)
(*   a reflect.Value of Interface kind (an element of a map[string]any)    *)
(*   that wraps a dynamic value, or Nil.                                   *)

Nil == [k |-> "nil"]
Str(s) == [k |-> "string", s |-> s]
IntV(n) == [k |-> "int", n |-> n]
Ptr(e) == [k |-> "ptr", isnil |-> FALSE, elem |-> e]
NilPtr(t) == [k |-> "ptr", isnil |-> TRUE, to |-> t]
Struct(t, f) == [k |-> "struct", t |-> t, f |-> f]
MapV(key, m) == [k |-> "map", key |-> key, m |-> m]
Iface(d) == [k |-> "iface", dyn |-> d]

\* the outcome of a Go panic
Panic == [k |-> "panic"]

\* the zero reflect.Value (IsValid() is false)
Invalid == [k |-> "invalid"]

\* the struct types of the test suite: Person{Name, Email string; Age int;
\* Detail *Detail} and Detail{City string; Data map[string]int}, and a list
\* node Node{Next *Node; Val int}; elem names the struct type a struct or
\* pointer field leads to.  Every field is exported, so
\* reflect.Value.CanInterface() is true of every value reached
StructType(t) ==
    CASE t = "Person" ->
           << [name |-> <<"Name">>, kind |-> "string", elem |-> ""],
              [name |-> <<"Email">>, kind |-> "string", elem |-> ""],
              [name |-> <<"Age">>, kind |-> "int", elem |-> ""],
              [name |-> <<"Detail">>, kind |-> "ptr", elem |-> "Detail"] >>
      [] t = "Detail" ->
           << [name |-> <<"City">>, kind |-> "string", elem |-> ""],
              [name |-> <<"Data">>, kind |-> "map", elem |-> ""] >>
      [] t = "Box" ->
           << [name |-> <<"M">>, kind |-> "map", elem |-> ""] >>
      [] t = "Node" ->
           << [name |-> <<"Next">>, kind |-> "ptr", elem |-> "Node"],
              [name |-> <<"Val">>, kind |-> "int", elem |-> ""] >>

----------------------------------------------------------------------------
(* Field chain resolution (fstr.go) *)

\* m with key k set to v
Put(m, k, v) == [x \in DOMAIN m \cup {k} |-> IF x = k THEN v ELSE m[x]]

\* the number of nested calls of buildFieldCache that the goroutine's stack
\* holds: the runtime ends the program with "fatal error: stack overflow"
\* when a call goes beyond it
MaxFrames == 4

\* what is left of the cache when the stack overflowed
StackOverflow == <<"stack overflow">> :> <<>>

\* the indices that stand for the end of the program
NoReturn == <<-1>>

RECURSIVE buildFieldCacheLoop(_, _)

\* one iteration of buildFieldCache's loop, at field f with index path idx:
\* the cache entry, then the recursion into a struct or pointer-to-struct
buildFieldCacheField(stack, cache, f, idx) ==
    IF f.kind = "struct" \/ (f.kind = "ptr" /\ f.elem # "")
    THEN (IF Len(stack) >= MaxFrames THEN StackOverflow
          ELSE buildFieldCacheLoop(
                   <<[typ |-> f.elem, prefix |-> idx, i |-> 0],
                     [Head(stack) EXCEPT !.i = @ + 1]>> \o Tail(stack),
                   Put(cache, f.name, idx)))
    ELSE buildFieldCacheLoop(<<[Head(stack) EXCEPT !.i = @ + 1]>> \o Tail(stack),
                             Put(cache, f.name, idx))

\* buildFieldCache with its call stack made explicit: each frame is one call
\* (typ, prefix) stopped at field i of its loop
buildFieldCacheLoop(stack, cache) ==
    IF stack = <<>> THEN cache
    ELSE IF Head(stack).i >= Len(StructType(Head(stack).typ))
    THEN buildFieldCacheLoop(Tail(stack), cache)
    ELSE buildFieldCacheField(stack, cache,
                              At(StructType(Head(stack).typ), Head(stack).i),
                              Append(Head(stack).prefix, Head(stack).i))

buildFieldCache(typ) ==
    buildFieldCacheLoop(<<[typ |-> typ, prefix |-> <<>>, i |-> 0]>>, <<>>)

\* cache[fieldName], or <<>> when there is none (ok = false); nothing is
\* returned when building the cache overflowed the stack
cachedIndices(cache, fieldName) ==
    IF cache = StackOverflow THEN NoReturn
    ELSE IF fieldName \in DOMAIN cache THEN cache[fieldName] ELSE <<>>

\* getCachedFieldIndices; fieldCache memoises buildFieldCache, a function of
\* the type alone
getCachedFieldIndices(typ, fieldName) == cachedIndices(buildFieldCache(typ), fieldName)

\* reflect.Value.Field(i) of a struct value
Field(val, i) == val.f[At(StructType(val.t), i).name]

\* the step of FieldByIndex through a pointer, which panics on a nil one
indirect(v, i) ==
    IF i > 0 /\ v.k = "ptr" THEN (IF v.isnil THEN Panic ELSE v.elem) ELSE v

RECURSIVE FieldByIndexFrom(_, _, _)

FieldByIndexStep(w, index, i) ==
    IF w = Panic THEN Panic ELSE FieldByIndexFrom(Field(w, At(index, i)), index, i + 1)

\* the loop of reflect.Value.FieldByIndex
FieldByIndexFrom(v, index, i) ==
    IF i >= Len(index) THEN v ELSE FieldByIndexStep(indirect(v, i), index, i)

FieldByIndex(v, index) == FieldByIndexFrom(v, index, 0)

RECURSIVE Deref(_)
\* the pointer-chasing loops: the value behind the pointers, or Invalid
\* when one of them is nil
Deref(v) == IF v.k # "ptr" THEN v ELSE IF v.isnil THEN Invalid ELSE Deref(v.elem)

\* Deref of a field's value, unless the lookup already failed
derefField(f) == IF f \in {Invalid, Panic} THEN f ELSE Deref(f)

\* reflect.Value.MapIndex(key): the element, or Invalid when the key is absent
MapIndex(v, key) == IF key \in DOMAIN v.m THEN v.m[key] ELSE Invalid

\* `if v.Kind() == reflect.Interface { v = v.Elem() }`
unwrapIface(v) ==
    IF v \notin {Invalid, Panic} /\ v.k = "iface"
    THEN (IF v.dyn = Nil THEN Invalid ELSE v.dyn)
    ELSE v

\* the field found through the cached indices (idx = <<>>: none cached); the
\* stack overflow ends the call as a panic that nothing recovers does
fieldByCache(val, idx) ==
    IF idx = <<>> THEN Invalid
    ELSE IF idx = NoReturn THEN Panic
    ELSE FieldByIndex(val, idx)

\* the switch on val.Kind() in the loop of getFieldChainValueFast
stepField(val, field) ==
    CASE val.k = "struct" ->
           IF field \in DOMAIN val.f THEN val.f[field]
           ELSE fieldByCache(val, getCachedFieldIndices(val.t, field))
      [] val.k = "map" ->
           IF val.key # "string" THEN Invalid ELSE MapIndex(val, field)
      [] OTHER -> Invalid

RECURSIVE structLoop(_, _, _)

\* the end of one iteration: d is the value after the pointer loop
structLoopNext(d, fields, i) ==
    IF d = Panic THEN Panic
    ELSE IF d = Invalid THEN Str(InvalidField)
    ELSE structLoop(d, fields, i + 1)

\* the loop of getFieldChainValueFast over fields from index i on, at val
structLoop(val, fields, i) ==
    IF i >= Len(fields) THEN val
    ELSE structLoopNext(
             IF i = Len(fields) - 1
             THEN unwrapIface(derefField(stepField(val, At(fields, i))))
             ELSE derefField(stepField(val, At(fields, i))),
             fields, i)

RECURSIVE getFieldChainValueFast(_, _)

\* the top-level map branch once the element v of fields[0] is at hand
topLevelMap(v, fields) ==
    IF v = Invalid THEN Str(InvalidField)
    ELSE IF Len(fields) = 1 THEN v
    ELSE getFieldChainValueFast(v, Tail(fields))

\* getFieldChainValueFast after its first pointer loop
fieldChainOf(val, fields) ==
    IF val = Invalid THEN Str(InvalidField)
    ELSE IF val.k = "map" /\ val.key = "string"
    THEN topLevelMap(unwrapIface(MapIndex(val, At(fields, 0))), fields)
    ELSE structLoop(val, fields, 0)

getFieldChainValueFast(base, fields) ==
    IF base = Nil \/ Len(fields) = 0 THEN Str(InvalidField)
    ELSE fieldChainOf(Deref(base), fields)

----------------------------------------------------------------------------
(* Rendering (fstr.go) *)

DigitTok(d) == At(<<"0", "1", "2", "3", "4", "5", "6", "7", "8", "9">>, d)

RECURSIVE digitLoop(_)
\* the digits that writeInt's loop `for i > 0` collects, most significant first
digitLoop(i) == IF i > 0 THEN Append(digitLoop(i \div 10), DigitTok(i % 10)) ELSE <<>>

\* the width of the model's int64: the checker's integers are narrower than
\* 64 bits, and the arithmetic is the same two's complement at every width
IntBits == 8

MinInt64 == 0 - 2 ^ (IntBits - 1)

MaxInt64 == 2 ^ (IntBits - 1) - 1

\* an integer brought back into the range of int64
Wrap64(n) == ((n - MinInt64) % (2 ^ IntBits)) + MinInt64

\* writeInt: `i = -i` wraps around at the most negative value
writeInt(i) ==
    IF i = 0 THEN <<"0">>
    ELSE LET neg == i < 0
             a == IF neg THEN Wrap64(0 - i) ELSE i
         IN  (IF neg THEN <<"-">> ELSE <<>>) \o digitLoop(a)

\* fmt's %v of a value that is neither a string nor a number: the fmt
\* package is not part of the repository, and its text is kept abstract,
\* one token per shape
FmtV(val) ==
    CASE val.k = "nil" -> NilText
      [] val.k = "ptr" -> IF val.isnil THEN NilText ELSE <<"&{...}">>
      [] val.k = "struct" -> <<"{...}">>
      [] val.k = "map" -> <<"map[...]">>
      [] val.k = "string" -> val.s
      [] val.k = "int" -> writeInt(val.n)

formatValFast(val) ==
    CASE val.k = "nil" -> NoValue
      [] val.k = "string" -> val.s
      [] val.k = "int" -> writeInt(val.n)
      [] val.k = "struct" ->
           IF <<"Name">> \in DOMAIN val.f /\ val.f[<<"Name">>].k = "string"
           THEN val.f[<<"Name">>].s
           ELSE FmtV(val)
      [] OTHER -> FmtV(val)

placeholderSpecToPrintf(spec) ==
    IF spec = <<>> THEN <<"%", "v">>
    ELSE IF spec = <<"?">> THEN <<"%", "+", "v">>
    ELSE <<"%">> \o spec

\* fmt.Fprintf(sb, verb, val): %s and %v print a string as it is; the text
\* of any other verb is kept abstract, as the verb applied to the operand
Fprintf(verb, val) ==
    IF val.k = "string" /\ verb \in {<<"%", "s">>, <<"%", "v">>} THEN val.s
    ELSE verb \o <<"(">> \o FmtV(val) \o <<")">>

\* a faulty getArgOrNoValue that wraps an index past the end around to the
\* start of args; the auto-placeholder property must tell it apart
getArgOrNoValueWrap(idx, as) ==
    IF idx < 0 \/ Len(as) = 0 THEN Str(NoValue) ELSE At(as, idx % Len(as))

getArgOrNoValue(idx, as) ==
    IF idx < 0 \/ idx >= Len(as) THEN Str(NoValue) ELSE At(as, idx)

\* the switch of Sprintf that picks the value of placeholder ph
resolveValue(ph, autoIndex, as) ==
    IF ph.PositionalIndex = NilIndex /\ Len(ph.FieldChain) = 0
    THEN getArgOrNoValue(autoIndex, as)
    ELSE IF ph.PositionalIndex # NilIndex
    THEN LET val == getArgOrNoValue(ph.PositionalIndex, as)
         IN  IF Len(ph.FieldChain) > 0
             THEN getFieldChainValueFast(val, ph.FieldChain)
             ELSE val
    ELSE IF Len(as) > 0 THEN getFieldChainValueFast(At(as, 0), ph.FieldChain)
    ELSE Str(NoValue)

\* a faulty counter that every placeholder advances; the property of
\* explicit indices must tell it apart
nextAutoIndexAlways(ph, autoIndex) == autoIndex + 1

\* the auto counter after placeholder ph
nextAutoIndex(ph, autoIndex) ==
    IF ph.PositionalIndex = NilIndex /\ Len(ph.FieldChain) = 0
    THEN autoIndex + 1
    ELSE autoIndex

\* the text Sprintf writes for a resolved value under spec
formatValue(spec, val) ==
    IF spec = <<>>
    THEN IF val.k = "string" THEN val.s ELSE formatValFast(val)
    ELSE Fprintf(placeholderSpecToPrintf(spec), val)

RECURSIVE renderLoop(_, _, _, _, _, _, _)

\* the end of one iteration: text is what the placeholder rendered to
renderWrite(segs, phs, as, i, autoIndex, sb, out, text) ==
    renderLoop(segs, phs, as, i + 1, autoIndex, sb \o text, Append(out, text))

\* one iteration once the placeholder's value val is resolved
renderValue(segs, phs, as, i, autoIndex, sb, out, val) ==
    IF val = Panic
    THEN [panic |-> TRUE, s |-> <<>>, pieces |-> out]
    ELSE renderWrite(segs, phs, as, i, nextAutoIndex(At(phs, i), autoIndex), sb, out,
                     formatValue(At(phs, i).Spec, val))

\* the stitching loop of Sprintf from placeholder i on; pieces records the
\* text written for each placeholder
renderLoop(segs, phs, as, i, autoIndex, sb, out) ==
    IF i >= Len(phs)
    THEN [panic |-> FALSE,
          s |-> IF Len(segs) > Len(phs) THEN sb \o At(segs, Len(phs)) ELSE sb,
          pieces |-> out]
    ELSE renderValue(segs, phs, as, i, autoIndex,
                     IF i < Len(segs) THEN sb \o At(segs, i) ELSE sb,
                     out, resolveValue(At(phs, i), autoIndex, as))

\* strings.ContainsAny(format, "{}")
HasBrace(fmt) == { i \in 1..Len(fmt) : fmt[i] \in {"{", "}"} } # {}

----------------------------------------------------------------------------
(* The parse cache entry and F (cache.go, format.go, formatters.go, fstr.go) *)

\* the placeholder names for which getParsedFormat records an access path:
\* those that strings.Split cuts into more than one part
pathNames(phs) ==
    { nm \in { phs[i].name : i \in 1..Len(phs) } :
        nm # <<>> /\ Len(Split(nm, ".")) > 1 }

\* the accessPaths map that getParsedFormat builds
buildAccessPaths(phs) == [nm \in pathNames(phs) |-> Split(nm, ".")]

\* the parsedFormat of a parse result
parsedFormatOf(pr) ==
    [literals |-> pr.literals, placeholders |-> pr.placeholders,
     accessPaths |-> buildAccessPaths(pr.placeholders)]

\* what getParsedFormat computes on a miss
newParsedFormat(fmt) == parsedFormatOf(parse(fmt))

\* v is a map[string]interface{}: a string-keyed map of interface elements
IsMapAny(v) ==
    /\ v.k = "map"
    /\ v.key = "string"
    /\ DOMAIN v.m # {}
    /\ \A x \in DOMAIN v.m : v.m[x].k = "iface"

\* m[key] of a map[string]interface{}: nil when the key is absent
mapAnyIndex(v, key) == IF key \in DOMAIN v.m THEN v.m[key].dyn ELSE Nil

\* one step of getNestedValue's loop through a value that is not a
\* map[string]interface{}
nestedField(v, key) ==
    IF v.k = "struct" /\ key \in DOMAIN v.f THEN v.f[key] ELSE Nil

RECURSIVE getNestedValue(_, _)
getNestedValue(data, path) ==
    IF path = <<>> THEN data
    ELSE IF data = Nil THEN Nil
    ELSE IF IsMapAny(data)
    THEN (IF Head(path) \in DOMAIN data.m
          THEN getNestedValue(data.m[Head(path)].dyn, Tail(path))
          ELSE Nil)
    ELSE IF data.k = "ptr"
    THEN (IF data.isnil \/ nestedField(data.elem, Head(path)) = Nil THEN Nil
          ELSE getNestedValue(nestedField(data.elem, Head(path)), Tail(path)))
    ELSE IF nestedField(data, Head(path)) = Nil THEN Nil
    ELSE getNestedValue(nestedField(data, Head(path)), Tail(path))

\* strings.Repeat of a one-token string
Repeat(c, n) == [i \in 1..n |-> c]

\* spec.Fill, a blank when it is zero
fillChar(spec) == IF spec.Fill = "" THEN " " ELSE spec.Fill

\* formatString after the truncation: width and alignment, padding being
\* width - len(s)
padString(s, spec, padding) ==
    IF spec.Width <= 0 \/ padding <= 0 THEN s
    ELSE CASE spec.Alignment = <<"<">> -> s \o Repeat(fillChar(spec), padding)
           [] spec.Alignment = <<"^">> ->
                Repeat(fillChar(spec), padding \div 2) \o s
                \o Repeat(fillChar(spec), padding - padding \div 2)
           [] spec.Alignment \in {<<">">>, <<>>} -> Repeat(fillChar(spec), padding) \o s
           [] OTHER -> s

\* formatString once s is truncated
formatStringPad(s, spec) == padString(s, spec, spec.Width - ByteLen(s))

formatString(s, spec) ==
    formatStringPad(IF spec.Precision > 0 /\ ByteLen(s) > spec.Precision
                    THEN SliceBytes(s, spec.Precision) ELSE s,
                    spec)

\* the sign step of formatInteger
signInteger(val, str, spec) ==
    IF val >= 0 /\ spec.Sign = <<"+">> THEN <<"+">> \o str
    ELSE IF val >= 0 /\ spec.Sign = <<" ">> THEN <<" ">> \o str
    ELSE str

\* the zero padding of formatInteger, else formatString
padInteger(str, spec) ==
    IF spec.ZeroPad /\ spec.Width > ByteLen(str)
    THEN Repeat("0", spec.Width - ByteLen(str)) \o str
    ELSE formatString(str, spec)

\* the digit characters of strconv.FormatInt
BaseDigit(d) ==
    At(<<"0", "1", "2", "3", "4", "5", "6", "7", "8", "9", "a", "b", "c", "d", "e", "f">>, d)

RECURSIVE baseDigits(_, _)
\* the digits of a positive integer in a base, most significant first
baseDigits(n, base) ==
    IF n > 0 THEN Append(baseDigits(n \div base, base), BaseDigit(n % base)) ELSE <<>>

\* strconv.FormatInt(val, base)
FormatInt(val, base) ==
    IF val = 0 THEN <<"0">>
    ELSE IF val < 0 THEN <<"-">> \o baseDigits(0 - val, base)
    ELSE baseDigits(val, base)

\* strings.ToUpper and strings.ToLower, token by token
ToUpper(s) ==
    [i \in 1..Len(s) |->
        CASE s[i] = "a" -> "A" [] s[i] = "b" -> "B" [] s[i] = "c" -> "C"
          [] s[i] = "d" -> "D" [] s[i] = "e" -> "E" [] s[i] = "f" -> "F"
          [] s[i] = "red" -> "RED"
          [] OTHER -> s[i]]

ToLower(s) ==
    [i \in 1..Len(s) |->
        CASE s[i] = "RED" -> "red" [] s[i] = "X" -> "x" [] s[i] = "Y" -> "y"
          [] s[i] = "City" -> "city" [] s[i] = "Data" -> "data"
          [] OTHER -> s[i]]

\* the prefix of formatInteger's alternate form
altPrefix(spec, prefix) == IF spec.Alternate THEN prefix ELSE <<>>

\* the base switch of formatInteger on spec.Type
baseInteger(val, spec) ==
    CASE spec.Type = <<"b">> -> altPrefix(spec, <<"0", "b">>) \o FormatInt(val, 2)
      [] spec.Type = <<"o">> -> altPrefix(spec, <<"0", "o">>) \o FormatInt(val, 8)
      [] spec.Type = <<"x">> -> altPrefix(spec, <<"0", "x">>) \o FormatInt(val, 16)
      [] spec.Type = <<"X">> ->
            altPrefix(spec, <<"0", "X">>) \o ToUpper(FormatInt(val, 16))
      [] OTHER -> FormatInt(val, 10)

\* formatInteger: base, sign, zero padding or formatString
formatInteger(val, spec) == padInteger(signInteger(val, baseInteger(val, spec), spec), spec)

\* reflect.TypeOf of a non-nil value
TypeOf(v) ==
    CASE v.k = "string" -> "string"
      [] v.k = "int" -> "int"
      [] v.k = "struct" -> v.t
      [] v.k = "map" -> "map"
      [] v.k = "ptr" -> "ptr"

\* what is written in place of a text when producing it panicked
PanicMark == <<"panic">>

\* f.Format(arg, spec) of a registered formatter f: the formatters of
\* formatters.go, and two pieces of user code, one that returns a text of
\* its own and one that panics
Format(f, arg, spec) ==
    CASE f = "StringFormatter" ->
            IF arg.k = "string" THEN formatString(arg.s, spec) ELSE <<"<invalid>">>
      [] f = "IntegerFormatter" ->
            formatInteger(IF arg.k = "int" THEN arg.n ELSE 0, spec)
      [] f = "TimeFormatter" -> <<"<invalid time>">>
      [] f = "CustomFormatter" -> <<"Custom(">> \o FmtV(arg) \o <<")">>
      [] f = "PanicFormatter" -> PanicMark

\* GetFormatter(t): the formatter and ok
GetFormatterOf(fs, t) ==
    IF t \in DOMAIN fs THEN [f |-> fs[t], ok |-> TRUE] ELSE [f |-> "", ok |-> FALSE]

\* a faulty formatArg that never looks at the registry
formatArgBuiltin(arg, ph, found) ==
    CASE arg.k = "string" -> formatString(arg.s, ph.specifier)
      [] arg.k = "int" -> formatInteger(arg.n, ph.specifier)
      [] OTHER -> FmtV(arg)

\* formatArg once the registry has answered
formatArgWith(arg, ph, found) ==
    IF found.ok THEN Format(found.f, arg, ph.specifier)
    ELSE CASE arg.k = "string" -> formatString(arg.s, ph.specifier)
           [] arg.k = "int" -> formatInteger(arg.n, ph.specifier)
           [] OTHER -> FmtV(arg)

formatArg(arg, ph) ==
    IF arg = Nil THEN NilText
    ELSE formatArgWith(arg, ph, GetFormatterOf(formatters, TypeOf(arg)))

\* the ANSI codes of applyColor's table whose names are tokens of the model
codes == (<<"red">> :> "ESC[31m") @@ (<<"reset">> :> "ESC[0m")

applyColor(s, color) ==
    IF ToLower(color) \in DOMAIN codes
    THEN <<codes[ToLower(color)]>> \o s \o <<codes[<<"reset">>]>>
    ELSE s

isEmpty(v) ==
    CASE v.k = "nil" -> TRUE
      [] v.k = "string" -> v.s = <<>>
      [] v.k = "int" -> v.n = 0
      [] v.k = "map" -> DOMAIN v.m = {}
      [] v.k = "ptr" -> v.isnil
      [] OTHER -> FALSE

isTruthy(v) ==
    CASE v.k = "nil" -> FALSE
      [] v.k = "string" -> v.s # <<>>
      [] v.k = "int" -> v.n # 0
      [] v.k = "map" -> DOMAIN v.m # {}
      [] v.k = "ptr" -> ~v.isnil
      [] OTHER -> TRUE

\* evaluateComparison of a condition that holds none of the operators ==,
\* !=, >=, <=, > and <: op stays empty and the result is false.  No
\* condition of the model holds one
evaluateComparison(cond, arg) ==
    CASE \A i \in 1..Len(cond) : cond[i] \notin {"=", "<", ">"} -> FALSE

\* the switch of applyCondition
conditionHolds(cond, arg) ==
    CASE cond = <<"empty">> -> isEmpty(arg)
      [] cond = <<"!", "empty">> -> ~isEmpty(arg)
      [] cond = <<"true">> -> isTruthy(arg)
      [] cond = <<"false">> -> ~isTruthy(arg)
      [] OTHER -> evaluateComparison(cond, arg)

applyCondition(s, cond, trueVal, falseVal, arg) ==
    IF conditionHolds(cond, arg) THEN trueVal ELSE falseVal

\* the condition step that follows formatArg in F, formatWithParsed and
\* formatWithMap
conditionStep(ph, formatted, arg) ==
    IF ph.condition # <<>>
    THEN applyCondition(formatted, ph.condition, ph.trueVal, ph.falseVal, arg)
    ELSE formatted

\* the color step and the condition step; a panic inside formatArg has left
\* the function before them
colorStep(ph, formatted, arg) ==
    IF formatted = PanicMark THEN PanicMark
    ELSE conditionStep(ph,
                       IF ph.color # <<>> THEN applyColor(formatted, ph.color)
                       ELSE formatted,
                       arg)

\* formatArg and the two steps after it, for a non-nil arg
formatted(ph, arg) == colorStep(ph, formatArg(arg, ph), arg)

\* the text F writes for placeholder ph given the argument picked for it
FText(pf, ph, arg) ==
    IF arg = Nil THEN NilText
    ELSE IF ph.name \in DOMAIN pf.accessPaths
    THEN formatted(ph, getNestedValue(arg, pf.accessPaths[ph.name]))
    ELSE formatted(ph, arg)

RECURSIVE FLoop(_, _, _, _, _)

\* result.WriteString(formatted), unless producing the text panicked
FWrite(pf, as, i, argIndex, sb, text) ==
    IF text = PanicMark THEN [panic |-> TRUE, s |-> <<>>]
    ELSE FLoop(pf, as, i + 1, argIndex, sb \o text)

\* the placeholder half of one iteration of F's loop
FPlaceholder(pf, as, i, argIndex, sb, ph) ==
    IF ph.position >= 0 /\ ph.position < Len(as)
    THEN FWrite(pf, as, i, argIndex, sb, FText(pf, ph, At(as, ph.position)))
    ELSE IF argIndex < Len(as)
    THEN FWrite(pf, as, i, argIndex + 1, sb, FText(pf, ph, At(as, argIndex)))
    ELSE FWrite(pf, as, i, argIndex, sb, NilText)

\* the loop of F over pf.literals from index i on
FLoop(pf, as, i, argIndex, sb) ==
    IF i >= Len(pf.literals) THEN [panic |-> FALSE, s |-> sb]
    ELSE IF i < Len(pf.placeholders)
    THEN FPlaceholder(pf, as, i, argIndex, sb \o At(pf.literals, i),
                      At(pf.placeholders, i))
    ELSE FLoop(pf, as, i + 1, argIndex, sb \o At(pf.literals, i))

\* the argument formatWithParsed picks for ph out of the map m
namedArg(pf, m, ph) ==
    IF ph.name \in DOMAIN pf.accessPaths
    THEN getNestedValue(m, pf.accessPaths[ph.name])
    ELSE IF ph.name # <<>> THEN mapAnyIndex(m, ph.name)
    ELSE Nil

\* the text formatWithParsed writes for ph given the argument picked for it
namedText(ph, arg) == IF arg = Nil THEN NilText ELSE formatted(ph, arg)

RECURSIVE formatWithParsedLoop(_, _, _, _)

formatWithParsedWrite(pf, m, i, sb, text) ==
    IF text = PanicMark THEN [panic |-> TRUE, s |-> <<>>]
    ELSE formatWithParsedLoop(pf, m, i + 1, sb \o text)

formatWithParsedLoop(pf, m, i, sb) ==
    IF i >= Len(pf.literals) THEN [panic |-> FALSE, s |-> sb]
    ELSE IF i < Len(pf.placeholders)
    THEN formatWithParsedWrite(pf, m, i, sb \o At(pf.literals, i),
             namedText(At(pf.placeholders, i),
                       namedArg(pf, m, At(pf.placeholders, i))))
    ELSE formatWithParsedLoop(pf, m, i + 1, sb \o At(pf.literals, i))

formatWithParsed(pf, m) == formatWithParsedLoop(pf, m, 0, <<>>)

\* FormatStruct of a struct value whose fields are all exported, untagged
\* and named
FormatStruct(v) == MapV("string", [x \in DOMAIN v.f |-> Iface(v.f[x])])

\* F after getParsedFormat: the single-argument switch, where
\* reflect.TypeOf(v) is nil for a nil argument and calling Kind() on it
\* panics, then the positional loop
renderF(pf, as) ==
    IF Len(as) = 1 /\ At(as, 0) # Nil /\ IsMapAny(At(as, 0))
    THEN formatWithParsed(pf, At(as, 0))
    ELSE IF Len(as) = 1 /\ At(as, 0) = Nil
    THEN [panic |-> TRUE, s |-> <<>>]
    ELSE IF Len(as) = 1 /\ At(as, 0).k = "struct"
    THEN formatWithParsed(pf, FormatStruct(At(as, 0)))
    ELSE FLoop(pf, as, 0, 0, <<>>)

----------------------------------------------------------------------------
(* Sprintf, one call (fstr.go) *)

NoResult == [panic |-> FALSE, s |-> <<"(none)">>, pieces |-> <<>>]

\* no caller
NoOne == 0

\* formatters after the package's init(): time.Time has TimeFormatter
InitFormatters == "time.Time" :> "TimeFormatter"

\* the package-level state after initialisation, with the callers of procs
\* idle
InitPackage(procs) ==
    /\ globalCache = <<>>
    /\ formatCache = <<>>
    /\ mu = [readers |-> {}, writer |-> NoOne]
    /\ calls = [p \in procs |-> [pc |-> "idle"]]
    /\ formatters = InitFormatters
    /\ regLog = << <<"time.Time", "TimeFormatter">> >>
    /\ got = [at |-> 0]
    /\ verbs = <<>>
    /\ fmtMutex = [readers |-> {}, writer |-> NoOne]

NoParse == [segments |-> <<>>, placeholders |-> <<>>]

\* the early returns of Sprintf: an empty format, or one without braces
SprintfFastPath ==
    /\ pc = "start"
    /\ Len(format) = 0 \/ ~HasBrace(format)
    /\ result' = [panic |-> FALSE, s |-> format, pieces |-> <<>>]
    /\ pc' = "done"
    /\ UNCHANGED <<format, args, parsed>>
    /\ UNCHANGED fvars

\* segments, placeholders = parseFormatFast(format, ...)
SprintfParse ==
    /\ pc = "start"
    /\ Len(format) # 0 /\ HasBrace(format)
    /\ parsed' = parseFormatFast(format)
    /\ pc' = "parsed"
    /\ UNCHANGED <<format, args, result>>
    /\ UNCHANGED fvars

\* the stitching loop, the leftover segment and the return
SprintfRender ==
    /\ pc = "parsed"
    /\ result' = renderLoop(parsed.segments, parsed.placeholders, args, 0, 0, <<>>, <<>>)
    /\ pc' = "done"
    /\ UNCHANGED <<format, args, parsed>>
    /\ UNCHANGED fvars

NextSprintf == SprintfFastPath \/ SprintfParse \/ SprintfRender

\* the pieces format strings are assembled from
Chunks ==
    { <<"a">>, <<"{">>, <<"}">>, <<"{", "}">>, <<"{", "0", "}">>, <<"{", "1", "}">>,
      <<"{", "2", "}">>, <<"{", "2", ".", "n", "}">>, <<"{", "n", "}">>,
      <<"{", ":", "x", "}">> }

Formats == { Concat(cs) : cs \in UNION { [1..k -> Chunks] : k \in 0..MaxChunks } }

ArgValues == { Str(<<"X">>), Str(<<"Y">>), Nil }

ArgLists == UNION { [1..k -> ArgValues] : k \in 0..MaxArgs }

InitSprintf ==
    /\ format \in Formats
    /\ args \in ArgLists
    /\ pc = "start"
    /\ parsed = NoParse
    /\ result = NoResult
    /\ InitPackage({})

SpecSprintf == InitSprintf /\ [][NextSprintf]_vars

----------------------------------------------------------------------------
(* Sprintf on one placeholder with a field chain (fstr.go, fstr_test.go) *)

\* the sample values of the test suite
DetailV ==
    Struct("Detail", (<<"City">> :> Str(<<"Wonderland">>))
                     @@ (<<"Data">> :> MapV("string", <<"k">> :> IntV(42))))

PersonV(detail) ==
    Struct("Person", (<<"Name">> :> Str(<<"Alice">>)) @@ (<<"Email">> :> Str(<<"a@b">>))
                     @@ (<<"Age">> :> IntV(30)) @@ (<<"Detail">> :> detail))

\* the base arguments: a Person with and without Detail, by value and by
\* pointer, a nil *Person, and a map[string]interface{} of such values
FieldBases ==
    { PersonV(Ptr(DetailV)), PersonV(NilPtr("Detail")),
      Ptr(PersonV(Ptr(DetailV))), Ptr(PersonV(NilPtr("Detail"))),
      NilPtr("Person"),
      MapV("string", (<<"p">> :> Iface(Ptr(PersonV(NilPtr("Detail")))))
                     @@ (<<"q">> :> Iface(PersonV(Ptr(DetailV))))
                     @@ (<<"n">> :> Iface(Nil))
                     @@ (<<"z">> :> Iface(NilPtr("Person")))) }

FieldNames == { <<"Name">>, <<"Age">>, <<"Detail">>, <<"City">>, <<"Data">>,
                <<"k">>, <<"p">>, <<"q">>, <<"n">>, <<"z">>, <<"Missing">>, <<"name">> }

\* the longest field chain
MaxChain == 2

FieldChains == UNION { [1..n -> FieldNames] : n \in 1..MaxChain }

RECURSIVE Join(_, _)
\* strings.Join(ss, sep) of a non-empty ss
Join(ss, sep) ==
    IF Len(ss) = 1 THEN Head(ss) ELSE Head(ss) \o sep \o Join(Tail(ss), sep)

\* a call Sprintf("{0.<chain>}", base) or Sprintf("{<chain>}", base)
InitField ==
    /\ \E chain \in FieldChains, prefix \in {<<>>, <<"0", ".">>} :
          format = <<"{">> \o prefix \o Join(chain, <<".">>) \o <<"}">>
    /\ \E base \in FieldBases : args = <<base>>
    /\ pc = "start"
    /\ parsed = NoParse
    /\ result = NoResult
    /\ InitPackage({})

NextField == SprintfParse \/ SprintfRender

SpecField == InitField /\ [][NextField]_vars

----------------------------------------------------------------------------
(* Sprintf on longer field chains (fstr.go): structs, string-keyed maps,   *)
(* pointers and interface-typed map values below one another               *)

\* the longest of these chains
MaxDepth == 3

\* a struct Box{M map[string]interface{}} that holds a Detail and a pointer
\* to a Person
BoxV ==
    Struct("Box", <<"M">> :> MapV("string",
                                  (<<"k">> :> Iface(DetailV))
                                  @@ (<<"q">> :> Iface(Ptr(PersonV(Ptr(DetailV)))))))

ChainBases == FieldBases \cup {BoxV, Ptr(BoxV)}

ChainNames == { <<"Name">>, <<"Detail">>, <<"City">>, <<"Data">>, <<"k">>, <<"p">>,
                <<"q">>, <<"M">>, <<"Missing">> }

Chains == UNION { [1..n -> ChainNames] : n \in 2..MaxDepth }

\* a call Sprintf("{0.<chain>}", base)
InitChain ==
    /\ \E chain \in Chains : format = <<"{", "0", ".">> \o Join(chain, <<".">>) \o <<"}">>
    /\ \E base \in ChainBases : args = <<base>>
    /\ pc = "start"
    /\ parsed = NoParse
    /\ result = NoResult
    /\ InitPackage({})

SpecChain == InitChain /\ [][NextField]_vars

----------------------------------------------------------------------------
(* The cached Sprintf (unnamed/part_000) *)

convertSpecToFmtVerb(spec) ==
    IF spec = <<>> THEN <<"%", "v">>
    ELSE IF spec = <<"?">> THEN <<"%", "+", "v">>
    ELSE <<"%">> \o spec

\* the placeholder that this variant's parsePlaceholderFast returns: the
\* same index and field chain, and the fmt verb of the spec in place of the
\* spec
verbPlaceholder(ph) ==
    [PositionalIndex |-> ph.PositionalIndex, FieldChain |-> ph.FieldChain,
     GoFmtVerb |-> convertSpecToFmtVerb(ph.Spec)]

\* the parsedResult built from what parseFormatFast returns
parsedResultOf(pr) ==
    [segments |-> pr.segments,
     placeholders |-> [i \in 1..Len(pr.placeholders) |->
                          verbPlaceholder(pr.placeholders[i])]]

\* the parsedResult that parseFormatAndCache builds and stores
newParsedResult(fmt) == parsedResultOf(parseFormatFast(fmt))

\* the text renderSprintf writes for a resolved value under verb
formatVerb(verb, val) ==
    IF verb = <<"%", "v">>
    THEN IF val.k = "string" THEN val.s ELSE formatValFast(val)
    ELSE Fprintf(verb, val)

RECURSIVE renderSprintfLoop(_, _, _, _, _)

\* one iteration of renderSprintf's loop once the value is resolved
renderSprintfValue(pr, as, i, autoIndex, sb, val) ==
    IF val = Panic THEN [panic |-> TRUE, s |-> <<>>]
    ELSE renderSprintfLoop(pr, as, i + 1, nextAutoIndex(At(pr.placeholders, i), autoIndex),
                           sb \o formatVerb(At(pr.placeholders, i).GoFmtVerb, val))

\* the loop of renderSprintf from placeholder i on, and the leftover segment
renderSprintfLoop(pr, as, i, autoIndex, sb) ==
    IF i >= Len(pr.placeholders)
    THEN [panic |-> FALSE,
          s |-> IF Len(pr.segments) > Len(pr.placeholders)
                THEN sb \o At(pr.segments, Len(pr.placeholders)) ELSE sb]
    ELSE renderSprintfValue(pr, as, i, autoIndex,
                            IF i < Len(pr.segments) THEN sb \o At(pr.segments, i) ELSE sb,
                            resolveValue(At(pr.placeholders, i), autoIndex, as))

renderSprintf(pr, as) == renderSprintfLoop(pr, as, 0, 0, <<>>)

----------------------------------------------------------------------------
(* Calls on the package: F with the parse cache of cache.go, clearCache,  *)
(* cleanup, and the cached Sprintf.  Each caller p runs one call at a time *)

\* the ceiling of the parse cache.  The source has 1000; the model scales it
\* down so that a handful of distinct formats passes it
maxCacheSize == 2

\* int(float64(maxCacheSize) * cleanupRatio), cleanupRatio being 0.5
newSize == maxCacheSize \div 2

\* the formats of F calls: a literal and `{}`, two explicit indices, a name,
\* escaped braces before a name, two adjacent `{}`
FFormats ==
    { <<"v", "{", "}">>, <<"{", "0", "}", "a", "{", "1", "}">>,
      <<"a", "{", "n", "}">>, <<"{", "{", "n", "}", "}", "a", "{", "n", "}">>,
      <<"{", "}", "{", "}">> }

\* a map[string]interface{}
MapAnyV == MapV("string", (<<"n">> :> Iface(Str(<<"N">>))) @@ (<<"a">> :> Iface(Nil)))

FArgLists ==
    { <<>>, <<Str(<<"X">>)>>, <<Nil>>, <<Str(<<"X">>), Nil>>, <<MapAnyV>>, <<DetailV>>,
      <<IntV(7), Str(<<"Y">>)>> }

\* the formats and arguments of cached Sprintf calls
CSFormats == { <<"a">>, <<"a", "{", "}">>, <<"{", "0", "}", "{", ":", "x", "}">>,
               <<"{", "n", "}", "{">> }

CSArgLists == { <<>>, <<Str(<<"X">>)>>, <<Nil, Str(<<"Y">>)>> }

\* the process-local state of a caller between calls
Idle == [pc |-> "idle"]

\* a call that has just begun
NewCall(op, fmt, as, at) ==
    [pc |-> at, op |-> op, format |-> fmt, args |-> as, hit |-> FALSE,
     pf |-> <<>>, result |-> NoResult]

\* caller p calls F(format, args) and enters getParsedFormat
FCall(p) ==
    /\ calls[p].pc = "idle"
    /\ \E fmt \in FFormats, as \in FArgLists :
          calls' = [calls EXCEPT ![p] = NewCall("F", fmt, as, "rlock")]
    /\ UNCHANGED <<svars, verbs, fmtMutex, globalCache, formatCache, mu, formatters, regLog, got>>

\* globalCache.mu.RLock()
getParsedFormatRLock(p) ==
    /\ calls[p].pc = "rlock"
    /\ mu.writer = NoOne
    /\ mu' = [mu EXCEPT !.readers = @ \cup {p}]
    /\ calls' = [calls EXCEPT ![p].pc = "lookup"]
    /\ UNCHANGED <<svars, verbs, fmtMutex, globalCache, formatCache, formatters, regLog, got>>

\* a faulty lookup that returns some entry of the cache, not the one of key
cacheLoadAny(c, key) == c[CHOOSE k \in DOMAIN c : k # key \/ DOMAIN c = {key}]

\* globalCache.cache[format] of a format that is cached
cacheLoad(c, key) == c[key]

\* the lookup under the read lock and RUnlock: a hit returns the entry
getParsedFormatLookup(p) ==
    /\ calls[p].pc = "lookup"
    /\ mu' = [mu EXCEPT !.readers = @ \ {p}]
    /\ calls' = IF calls[p].format \in DOMAIN globalCache
                THEN [calls EXCEPT ![p].pc = "render", ![p].hit = TRUE,
                                   ![p].pf = cacheLoad(globalCache, calls[p].format)]
                ELSE [calls EXCEPT ![p].pc = "parse"]
    /\ UNCHANGED <<svars, verbs, fmtMutex, globalCache, formatCache, formatters, regLog, got>>

\* the parse and the access paths, outside the locks
getParsedFormatParse(p) ==
    /\ calls[p].pc = "parse"
    /\ calls' = [calls EXCEPT ![p].pc = "lock",
                              ![p].pf = newParsedFormat(calls[p].format)]
    /\ UNCHANGED <<svars, verbs, fmtMutex, globalCache, formatCache, mu, formatters, regLog, got>>

\* globalCache.mu.Lock()
getParsedFormatLock(p) ==
    /\ calls[p].pc = "lock"
    /\ mu.writer = NoOne /\ mu.readers = {}
    /\ mu' = [mu EXCEPT !.writer = p]
    /\ calls' = [calls EXCEPT ![p].pc = "store"]
    /\ UNCHANGED <<svars, verbs, fmtMutex, globalCache, formatCache, formatters, regLog, got>>

\* a faulty store that overwrites every entry of the cache with pf
cacheStoreAll(c, key, pf) == [x \in DOMAIN c \cup {key} |-> pf]

\* globalCache.cache[format] = pf
cacheStore(c, key, pf) == Put(c, key, pf)

\* the store under the write lock and Unlock
getParsedFormatStore(p) ==
    /\ calls[p].pc = "store"
    /\ globalCache' = cacheStore(globalCache, calls[p].format, calls[p].pf)
    /\ mu' = [mu EXCEPT !.writer = NoOne]
    /\ calls' = [calls EXCEPT ![p].pc = "render"]
    /\ UNCHANGED <<svars, verbs, fmtMutex, formatCache, formatters, regLog, got>>

\* the rest of F, on the parsedFormat that getParsedFormat returned
FRender(p) ==
    /\ calls[p].pc = "render" /\ calls[p].op = "F"
    /\ calls' = [calls EXCEPT ![p].pc = "done",
                              ![p].result = renderF(calls[p].pf, calls[p].args)]
    /\ UNCHANGED <<svars, verbs, fmtMutex, globalCache, formatCache, mu, formatters, regLog, got>>

\* the call returns (or its panic has unwound) and p is free again
Return(p) ==
    /\ calls[p].pc = "done"
    /\ calls' = [calls EXCEPT ![p] = Idle]
    /\ UNCHANGED <<svars, verbs, fmtMutex, globalCache, formatCache, mu, formatters, regLog, got>>

\* clearCache(): Lock, a fresh map, Unlock
clearCache(p) ==
    /\ calls[p].pc = "idle"
    /\ mu.writer = NoOne /\ mu.readers = {}
    /\ globalCache' = <<>>
    /\ UNCHANGED <<svars, verbs, fmtMutex, formatCache, mu, calls, formatters, regLog, got>>

\* the maps that cleanup's range loop can leave: Go's map iteration order is
\* unspecified, so any newSize of the entries
cleanupResults(c) ==
    { [x \in keep |-> c[x]] : keep \in { ks \in SUBSET DOMAIN c : Cardinality(ks) = newSize } }

\* globalCache.cleanup(): under the lock, a cache past the ceiling is cut
\* down to newSize entries
cleanup(p) ==
    /\ calls[p].pc = "idle"
    /\ mu.writer = NoOne /\ mu.readers = {}
    /\ IF Cardinality(DOMAIN globalCache) > maxCacheSize
       THEN globalCache' \in cleanupResults(globalCache)
       ELSE UNCHANGED globalCache
    /\ UNCHANGED <<svars, verbs, fmtMutex, formatCache, mu, calls, formatters, regLog, got>>

\* caller p calls the cached Sprintf: its early returns, else on to the
\* cache
CSprintfCall(p) ==
    /\ calls[p].pc = "idle"
    /\ \E fmt \in CSFormats, as \in CSArgLists :
          calls' = [calls EXCEPT ![p] =
                      IF Len(fmt) = 0 \/ ~HasBrace(fmt)
                      THEN [NewCall("Sprintf", fmt, as, "done")
                              EXCEPT !.result = [panic |-> FALSE, s |-> fmt]]
                      ELSE NewCall("Sprintf", fmt, as, "load")]
    /\ UNCHANGED <<svars, verbs, fmtMutex, globalCache, formatCache, mu, formatters, regLog, got>>

\* formatCache.Load(format), found
CSprintfLoad(p) ==
    /\ calls[p].pc = "load"
    /\ calls[p].format \in DOMAIN formatCache
    /\ calls' = [calls EXCEPT ![p].pc = "render", ![p].hit = TRUE,
                              ![p].pf = formatCache[calls[p].format]]
    /\ UNCHANGED <<svars, verbs, fmtMutex, globalCache, formatCache, mu, formatters, regLog, got>>

\* formatCache.Load(format), not found: parseFormatAndCache parses, copies
\* and stores
parseFormatAndCache(p) ==
    /\ calls[p].pc = "load"
    /\ calls[p].format \notin DOMAIN formatCache
    /\ formatCache' = Put(formatCache, calls[p].format, newParsedResult(calls[p].format))
    /\ calls' = [calls EXCEPT ![p].pc = "render",
                              ![p].pf = newParsedResult(calls[p].format)]
    /\ UNCHANGED <<svars, verbs, fmtMutex, globalCache, mu, formatters, regLog, got>>

\* renderSprintf(pr, args)
CSprintfRender(p) ==
    /\ calls[p].pc = "render" /\ calls[p].op = "Sprintf"
    /\ calls' = [calls EXCEPT ![p].pc = "done",
                              ![p].result = renderSprintf(calls[p].pf, calls[p].args)]
    /\ UNCHANGED <<svars, verbs, fmtMutex, globalCache, formatCache, mu, formatters, regLog, got>>

\* no uncached Sprintf call is under way
NoSprintf ==
    /\ format = <<>>
    /\ args = <<>>
    /\ pc = "idle"
    /\ parsed = NoParse
    /\ result = NoResult

\* one caller, any sequence of calls
InitF == NoSprintf /\ InitPackage({1})

NextF ==
    \/ \E p \in DOMAIN calls : FCall(p)
    \/ \E p \in DOMAIN calls : getParsedFormatRLock(p)
    \/ \E p \in DOMAIN calls : getParsedFormatLookup(p)
    \/ \E p \in DOMAIN calls : getParsedFormatParse(p)
    \/ \E p \in DOMAIN calls : getParsedFormatLock(p)
    \/ \E p \in DOMAIN calls : getParsedFormatStore(p)
    \/ \E p \in DOMAIN calls : FRender(p)
    \/ \E p \in DOMAIN calls : Return(p)
    \/ \E p \in DOMAIN calls : clearCache(p)
    \/ \E p \in DOMAIN calls : cleanup(p)
    \/ \E p \in DOMAIN calls : CSprintfCall(p)
    \/ \E p \in DOMAIN calls : CSprintfLoad(p)
    \/ \E p \in DOMAIN calls : parseFormatAndCache(p)
    \/ \E p \in DOMAIN calls : CSprintfRender(p)

SpecF == InitF /\ [][NextF]_vars

----------------------------------------------------------------------------
(* Concurrent F calls (unnamed/part_003: TestConcurrency) *)

\* the number of goroutines calling F
NumProcs == 2

ConcFormats == { <<"v", "{", "}", "a", "{", "}">>, <<"{", "0", "}">> }

ConcArgLists == { <<IntV(1), IntV(2)>>, <<Str(<<"X">>)>> }

\* goroutine p calls F(format, args) and enters getParsedFormat
ConcCall(p) ==
    /\ calls[p].pc = "idle"
    /\ \E fmt \in ConcFormats, as \in ConcArgLists :
          calls' = [calls EXCEPT ![p] = NewCall("F", fmt, as, "rlock")]
    /\ UNCHANGED <<svars, verbs, fmtMutex, globalCache, formatCache, mu, formatters, regLog, got>>

InitConc == NoSprintf /\ InitPackage(1..NumProcs)

NextConc ==
    \/ \E p \in DOMAIN calls : ConcCall(p)
    \/ \E p \in DOMAIN calls : getParsedFormatRLock(p)
    \/ \E p \in DOMAIN calls : getParsedFormatLookup(p)
    \/ \E p \in DOMAIN calls : getParsedFormatParse(p)
    \/ \E p \in DOMAIN calls : getParsedFormatLock(p)
    \/ \E p \in DOMAIN calls : getParsedFormatStore(p)
    \/ \E p \in DOMAIN calls : FRender(p)
    \/ \E p \in DOMAIN calls : Return(p)

SpecConc == InitConc /\ [][NextConc]_vars

----------------------------------------------------------------------------
(* The formatter registry (formatters.go) *)

\* the number of RegisterFormatter calls followed, init()'s included
MaxRegs == 4

\* reflect.Types and Formatter values
Types == {"time.Time", "Custom", "string"}

FormatterValues == {"TimeFormatter", "StringFormatter", "IntegerFormatter"}

\* a faulty registration that keeps the formatter a type already has
RegisterFormatterKeepFirst(t, f) ==
    /\ Len(regLog) < MaxRegs
    /\ formatters' = IF t \in DOMAIN formatters THEN formatters ELSE Put(formatters, t, f)
    /\ regLog' = Append(regLog, <<t, f>>)
    /\ UNCHANGED <<svars, verbs, fmtMutex, globalCache, formatCache, mu, calls, got>>

\* RegisterFormatter(t, f): under fmtMutex, formatters[t] = f
RegisterFormatter(t, f) ==
    /\ Len(regLog) < MaxRegs
    /\ formatters' = Put(formatters, t, f)
    /\ regLog' = Append(regLog, <<t, f>>)
    /\ UNCHANGED <<svars, verbs, fmtMutex, globalCache, formatCache, mu, calls, got>>

\* what GetFormatter(t) returns after the first at registrations
Answer(at, t, found) == [at |-> at, t |-> t, f |-> found.f, ok |-> found.ok]

\* GetFormatter(t): under fmtMutex, f, ok := formatters[t]
GetFormatter(t) ==
    /\ got' = Answer(Len(regLog), t, GetFormatterOf(formatters, t))
    /\ UNCHANGED <<svars, verbs, fmtMutex, globalCache, formatCache, mu, calls, formatters, regLog>>

InitReg == NoSprintf /\ InitPackage({})

NextReg ==
    \/ \E t \in Types, f \in FormatterValues : RegisterFormatter(t, f)
    \/ \E t \in Types : GetFormatter(t)

SpecReg == InitReg /\ [][NextReg]_vars

----------------------------------------------------------------------------
(* Concurrent calls on the registry (formatters.go; unnamed/part_002:      *)
(* TestFormatterRegistration, TestVerbRegistration)                        *)

\* the number of goroutines calling the registry, one call each
NumGoroutines == 3

\* the reflect.Types, Formatters, verb names and handlers of the calls
RegTypes == {"time.Time", "Custom"}

RegFormatters == {"StringFormatter", "IntegerFormatter"}

VerbNames == {"json", "test"}

Handlers == {"jsonVerb", "testHandler"}

\* FormattingVerb{handler: handler, docs: documentation}
FormattingVerb(handler, documentation) == [handler |-> handler, docs |-> documentation]

\* a registry call that has just begun: its operation, key and value
RegCall(op, key, val, at) ==
    [pc |-> at, op |-> op, key |-> key, val |-> val, ret |-> [ok |-> FALSE]]

\* goroutine p calls RegisterFormatter(t, f)
RegisterFormatterCall(p) ==
    /\ calls[p].pc = "idle"
    /\ \E t \in RegTypes, f \in RegFormatters :
          calls' = [calls EXCEPT ![p] = RegCall("RegisterFormatter", t, f, "lock")]
    /\ UNCHANGED <<svars, verbs, fmtMutex, globalCache, formatCache, mu, formatters,
                   regLog, got>>

\* goroutine p calls RegisterVerb(verb, handler, documentation)
RegisterVerbCall(p) ==
    /\ calls[p].pc = "idle"
    /\ \E n \in VerbNames, h \in Handlers :
          calls' = [calls EXCEPT ![p] =
                      RegCall("RegisterVerb", n, FormattingVerb(h, "docs"), "lock")]
    /\ UNCHANGED <<svars, verbs, fmtMutex, globalCache, formatCache, mu, formatters,
                   regLog, got>>

\* goroutine p calls GetFormatter(t)
GetFormatterCall(p) ==
    /\ calls[p].pc = "idle"
    /\ \E t \in RegTypes :
          calls' = [calls EXCEPT ![p] = RegCall("GetFormatter", t, "", "rlock")]
    /\ UNCHANGED <<svars, verbs, fmtMutex, globalCache, formatCache, mu, formatters,
                   regLog, got>>

\* goroutine p calls GetFormattingVerb(verb)
GetFormattingVerbCall(p) ==
    /\ calls[p].pc = "idle"
    /\ \E n \in VerbNames :
          calls' = [calls EXCEPT ![p] = RegCall("GetFormattingVerb", n, "", "rlock")]
    /\ UNCHANGED <<svars, verbs, fmtMutex, globalCache, formatCache, mu, formatters,
                   regLog, got>>

\* a faulty Lock that never waits
canLockAlways(m) == TRUE

\* sync.RWMutex: Lock proceeds when no one holds the mutex
canLock(m) == m.writer = NoOne /\ m.readers = {}

\* sync.RWMutex: RLock proceeds when no writer holds the mutex
canRLock(m) == m.writer = NoOne

\* fmtMutex.Lock()
fmtMutexLock(p) ==
    /\ calls[p].pc = "lock"
    /\ canLock(fmtMutex)
    /\ fmtMutex' = [fmtMutex EXCEPT !.writer = p]
    /\ calls' = [calls EXCEPT ![p].pc = "write"]
    /\ UNCHANGED <<svars, verbs, globalCache, formatCache, mu, formatters, regLog, got>>

\* formatters[t] = f
RegisterFormatterWrite(p) ==
    /\ calls[p].pc = "write" /\ calls[p].op = "RegisterFormatter"
    /\ formatters' = Put(formatters, calls[p].key, calls[p].val)
    /\ regLog' = Append(regLog, <<calls[p].key, calls[p].val>>)
    /\ calls' = [calls EXCEPT ![p].pc = "unlock"]
    /\ UNCHANGED <<svars, verbs, fmtMutex, globalCache, formatCache, mu, got>>

\* verbs[verb] = FormattingVerb{...}
RegisterVerbWrite(p) ==
    /\ calls[p].pc = "write" /\ calls[p].op = "RegisterVerb"
    /\ verbs' = Put(verbs, calls[p].key, calls[p].val)
    /\ calls' = [calls EXCEPT ![p].pc = "unlock"]
    /\ UNCHANGED <<svars, fmtMutex, globalCache, formatCache, mu, formatters, regLog, got>>

\* the deferred fmtMutex.Unlock() and the return
fmtMutexUnlock(p) ==
    /\ calls[p].pc = "unlock"
    /\ fmtMutex' = [fmtMutex EXCEPT !.writer = NoOne]
    /\ calls' = [calls EXCEPT ![p].pc = "returned"]
    /\ UNCHANGED <<svars, verbs, globalCache, formatCache, mu, formatters, regLog, got>>

\* fmtMutex.RLock()
fmtMutexRLock(p) ==
    /\ calls[p].pc = "rlock"
    /\ canRLock(fmtMutex)
    /\ fmtMutex' = [fmtMutex EXCEPT !.readers = @ \cup {p}]
    /\ calls' = [calls EXCEPT ![p].pc = "read"]
    /\ UNCHANGED <<svars, verbs, globalCache, formatCache, mu, formatters, regLog, got>>

\* f, ok := formatters[t]
GetFormatterRead(p) ==
    /\ calls[p].pc = "read" /\ calls[p].op = "GetFormatter"
    /\ calls' = [calls EXCEPT ![p].pc = "runlock",
                              ![p].ret = GetFormatterOf(formatters, calls[p].key)]
    /\ UNCHANGED <<svars, verbs, fmtMutex, globalCache, formatCache, mu, formatters,
                   regLog, got>>

\* v, ok := verbs[verb]
GetFormattingVerbRead(p) ==
    /\ calls[p].pc = "read" /\ calls[p].op = "GetFormattingVerb"
    /\ calls' = [calls EXCEPT ![p].pc = "runlock",
                              ![p].ret = GetFormatterOf(verbs, calls[p].key)]
    /\ UNCHANGED <<svars, verbs, fmtMutex, globalCache, formatCache, mu, formatters,
                   regLog, got>>

\* the deferred fmtMutex.RUnlock() and the return
fmtMutexRUnlock(p) ==
    /\ calls[p].pc = "runlock"
    /\ fmtMutex' = [fmtMutex EXCEPT !.readers = @ \ {p}]
    /\ calls' = [calls EXCEPT ![p].pc = "returned"]
    /\ UNCHANGED <<svars, verbs, globalCache, formatCache, mu, formatters, regLog, got>>

InitRegConc == NoSprintf /\ InitPackage(1..NumGoroutines)

NextRegConc ==
    \/ \E p \in DOMAIN calls : RegisterFormatterCall(p)
    \/ \E p \in DOMAIN calls : RegisterVerbCall(p)
    \/ \E p \in DOMAIN calls : GetFormatterCall(p)
    \/ \E p \in DOMAIN calls : GetFormattingVerbCall(p)
    \/ \E p \in DOMAIN calls : fmtMutexLock(p)
    \/ \E p \in DOMAIN calls : RegisterFormatterWrite(p)
    \/ \E p \in DOMAIN calls : RegisterVerbWrite(p)
    \/ \E p \in DOMAIN calls : fmtMutexUnlock(p)
    \/ \E p \in DOMAIN calls : fmtMutexRLock(p)
    \/ \E p \in DOMAIN calls : GetFormatterRead(p)
    \/ \E p \in DOMAIN calls : GetFormattingVerbRead(p)
    \/ \E p \in DOMAIN calls : fmtMutexRUnlock(p)

SpecRegConc == InitRegConc /\ [][NextRegConc]_vars

----------------------------------------------------------------------------
(* F and Safe with registered formatters and verbs (fstr.go, format.go,   *)
(* formatters.go): one goroutine that registers and formats in turn       *)

\* formats with a specifier and a color, with a color and a condition, and
\* with the type tag x
CustomFormats ==
    { <<"v", "{", ":", ">", "2", "|", "red", "}">>,
      <<"v", "{", "|", "RED", "?", "empty", "(", "none", ")", ":", "some", "}">>,
      <<"v", "{", ":", "x", "}">> }

CustomArgLists ==
    { <<Str(<<"X">>)>>, <<Str(<<>>)>>, <<IntV(10)>>, <<Nil>>, <<Str(<<"X">>), IntV(10)>> }

\* the types and formatters that are registered
CustomTypes == {"string", "int"}

CustomFormatters == {"StringFormatter", "CustomFormatter", "PanicFormatter"}

\* the caller calls F(format, args)
CustomFCall(p) ==
    /\ calls[p].pc = "idle"
    /\ \E fmt \in CustomFormats, as \in CustomArgLists :
          calls' = [calls EXCEPT ![p] = NewCall("F", fmt, as, "rlock")]
    /\ UNCHANGED <<svars, verbs, fmtMutex, globalCache, formatCache, mu, formatters,
                   regLog, got>>

\* the caller calls Safe(format, args), which calls F under its deferred
\* recover
SafeCall(p) ==
    /\ calls[p].pc = "idle"
    /\ \E fmt \in CustomFormats, as \in CustomArgLists :
          calls' = [calls EXCEPT ![p] = NewCall("Safe", fmt, as, "rlock")]
    /\ UNCHANGED <<svars, verbs, fmtMutex, globalCache, formatCache, mu, formatters,
                   regLog, got>>

\* a faulty Safe whose deferred function does not recover
SafeNoRecover(r) == [panic |-> r.panic, s |-> r.s, err |-> FALSE]

\* what Safe returns given the outcome r of F: the deferred function
\* recovers a panic and sets result and err, else result is F's and err nil
Safe(r) ==
    IF r.panic THEN [panic |-> FALSE, s |-> <<"<format error>">>, err |-> TRUE]
    ELSE [panic |-> FALSE, s |-> r.s, err |-> FALSE]

\* the rest of F inside Safe, and Safe's return
SafeRender(p) ==
    /\ calls[p].pc = "render" /\ calls[p].op = "Safe"
    /\ calls' = [calls EXCEPT ![p].pc = "done",
                              ![p].result = Safe(renderF(calls[p].pf, calls[p].args))]
    /\ UNCHANGED <<svars, verbs, fmtMutex, globalCache, formatCache, mu, formatters,
                   regLog, got>>

\* the caller, between two calls, registers a formatter
CustomRegisterFormatter(p) ==
    /\ calls[p].pc = "idle"
    /\ \E t \in CustomTypes, f \in CustomFormatters : RegisterFormatter(t, f)

\* handler(v, spec) of a registered verb: testHandler returns "test"
\* whatever it is given
Handle(handler, v, spec) == CASE handler = "testHandler" -> <<"test">>

\* RegisterVerb(verb, handler, documentation): under fmtMutex,
\* verbs[verb] = FormattingVerb{...}
RegisterVerb(verb, handler, documentation) ==
    /\ verbs' = Put(verbs, verb, FormattingVerb(handler, documentation))
    /\ UNCHANGED <<svars, fmtMutex, globalCache, formatCache, mu, calls, formatters,
                   regLog, got>>

\* the caller, between two calls, registers testHandler as the verb x
CustomRegisterVerb(p) ==
    /\ calls[p].pc = "idle"
    /\ <<"x">> \notin DOMAIN verbs
    /\ RegisterVerb(<<"x">>, "testHandler", "docs")

InitCustom == NoSprintf /\ InitPackage({1})

NextCustom ==
    \/ \E p \in DOMAIN calls : CustomFCall(p)
    \/ \E p \in DOMAIN calls : SafeCall(p)
    \/ \E p \in DOMAIN calls : getParsedFormatRLock(p)
    \/ \E p \in DOMAIN calls : getParsedFormatLookup(p)
    \/ \E p \in DOMAIN calls : getParsedFormatParse(p)
    \/ \E p \in DOMAIN calls : getParsedFormatLock(p)
    \/ \E p \in DOMAIN calls : getParsedFormatStore(p)
    \/ \E p \in DOMAIN calls : FRender(p)
    \/ \E p \in DOMAIN calls : SafeRender(p)
    \/ \E p \in DOMAIN calls : Return(p)
    \/ \E p \in DOMAIN calls : CustomRegisterFormatter(p)
    \/ \E p \in DOMAIN calls : CustomRegisterVerb(p)

SpecCustom == InitCustom /\ [][NextCustom]_vars

----------------------------------------------------------------------------
(* Validate (unnamed/part_000) *)

\* the longest format handed to Validate
MaxValidateLen == 5

ErrUnexpectedClosingBrace == "unexpected closing brace"

ErrUnclosedBrace == "unclosed brace"

\* the error Validate returns: nil, or a *FormatError
NoError == [nil |-> TRUE]

FormatError(fmt, err, pos) == [nil |-> FALSE, Format |-> fmt, Err |-> err, Pos |-> pos]

RECURSIVE ValidateLoop(_, _, _)
\* the loop of Validate from position pos on, and what follows it
ValidateLoop(fmt, pos, stack) ==
    IF pos >= Len(fmt)
    THEN (IF Len(stack) > 0 THEN FormatError(fmt, ErrUnclosedBrace, -1) ELSE NoError)
    ELSE IF At(fmt, pos) = "{" THEN ValidateLoop(fmt, pos + 1, Append(stack, "{"))
    ELSE IF At(fmt, pos) = "}"
    THEN (IF Len(stack) = 0 THEN FormatError(fmt, ErrUnexpectedClosingBrace, pos)
          ELSE ValidateLoop(fmt, pos + 1, SubSeq(stack, 1, Len(stack) - 1)))
    ELSE ValidateLoop(fmt, pos + 1, stack)

Validate(fmt) == ValidateLoop(fmt, 0, <<>>)

\* the formats handed to Validate: braces and a letter
ValidateFormats == UNION { [1..k -> {"{", "}", "a"}] : k \in 0..MaxValidateLen }

InitValidate ==
    /\ format \in ValidateFormats
    /\ args = <<>>
    /\ pc = "start"
    /\ parsed = NoParse
    /\ result = NoResult
    /\ InitPackage({})

\* the call Validate(format)
ValidateCall ==
    /\ pc = "start"
    /\ pc' = "done"
    /\ result' = Validate(format)
    /\ UNCHANGED <<format, args, parsed>>
    /\ UNCHANGED fvars

NextValidate == ValidateCall

SpecValidate == InitValidate /\ [][NextValidate]_vars

----------------------------------------------------------------------------
(* Sprintf on formats of doubled braces (fstr_test.go:                     *)
(* Escaped_braces_no_placeholders)                                         *)

\* the number of units such a format is assembled from
MaxUnits == 4

\* the units: a non-brace character, a digit, "{{" and "}}"
EscUnits == { <<"a">>, <<"0">>, <<"{", "{">>, <<"}", "}">> }

EscFormats == { Concat(us) : us \in UNION { [1..k -> EscUnits] : k \in 0..MaxUnits } }

InitEscaped ==
    /\ format \in EscFormats
    /\ args \in ArgLists
    /\ pc = "start"
    /\ parsed = NoParse
    /\ result = NoResult
    /\ InitPackage({})

SpecEscaped == InitEscaped /\ [][NextSprintf]_vars

----------------------------------------------------------------------------
(* formatString on a parsed specifier (format.go): here format is the text  *)
(* of the specifier, parsed the FormatSpecifier made of it, args the one    *)
(* string to format                                                         *)

\* the widest width written in a specifier
MaxWidth == 5

\* the longest text formatted, in characters
MaxText == 2

\* the texts: ASCII letters and the four-byte character
PadTexts == UNION { [1..k -> {"t", "crab"}] : k \in 0..MaxText }

\* the digits of a width
WidthDigits == { <<c>> : c \in { d \in Digits : DigitVal(d) \in 1..MaxWidth } }

\* the specifiers: an optional fill, an optional alignment, an optional width
PadSpecs ==
    { fill \o align \o width :
        fill \in {<<>>, <<"*">>},
        align \in {<<>>, <<"<">>, <<">">>, <<"^">>},
        width \in {<<>>} \cup WidthDigits }

InitPad ==
    /\ format \in PadSpecs
    /\ args \in { <<Str(t)>> : t \in PadTexts }
    /\ pc = "start"
    /\ parsed = ZeroSpecifier
    /\ result = NoResult
    /\ InitPackage({})

\* parseFormatSpecifier(spec)
PadParse ==
    /\ pc = "start"
    /\ pc' = "parsed"
    /\ parsed' = parseFormatSpecifier(format)
    /\ UNCHANGED <<format, args, result>>
    /\ UNCHANGED fvars

\* formatArg on a string or an int: formatString(v, ph.specifier) or
\* formatInteger(v, ph.specifier)
PadFormat ==
    /\ pc = "parsed"
    /\ pc' = "done"
    /\ result' = [panic |-> FALSE,
                  s |-> IF args[1].k = "int" THEN formatInteger(args[1].n, parsed)
                        ELSE formatString(args[1].s, parsed),
                  pieces |-> <<>>]
    /\ UNCHANGED <<format, args, parsed>>
    /\ UNCHANGED fvars

NextPad ==
    \/ PadParse
    \/ PadFormat

SpecPad == InitPad /\ [][NextPad]_vars

----------------------------------------------------------------------------
(* parseFormatSpecifier on specifiers of the form [width][.precision][type] *)
(* (TestParseFormatSpecifier)                                               *)

\* the number of digits of the widest width
MaxWidthDigits == 2

\* the widths: digits that do not begin with the zero flag
SpecWidths ==
    { w \in UNION { [1..k -> Digits] : k \in 1..MaxWidthDigits } : w[1] # "0" }

\* the precisions: a dot and a digit
SpecPrecisions == { <<".", d>> : d \in Digits }

\* the type letters
SpecTypes == { <<"f">>, <<"x">>, <<"d">> }

TypedSpecs ==
    { width \o prec \o type :
        width \in {<<>>} \cup SpecWidths,
        prec \in {<<>>} \cup SpecPrecisions,
        type \in {<<>>} \cup SpecTypes }

InitTyped ==
    /\ format \in TypedSpecs
    /\ args = <<Str(<<"t">>)>>
    /\ pc = "start"
    /\ parsed = ZeroSpecifier
    /\ result = NoResult
    /\ InitPackage({})

SpecTyped == InitTyped /\ [][NextPad]_vars

----------------------------------------------------------------------------
(* formatInteger on specifiers of the form [sign][#][type] (format.go)      *)

\* the largest magnitude of the integers formatted
MaxInt == 20

IntVals == (0 - MaxInt)..MaxInt

\* the specifiers: an optional sign, an optional "#", an optional type tag
IntSpecs ==
    { sign \o alt \o type :
        sign \in {<<>>, <<"+">>, <<" ">>, <<"-">>},
        alt \in {<<>>, <<"#">>},
        type \in {<<>>, <<"b">>, <<"o">>, <<"d">>, <<"x">>, <<"X">>} }

InitInt ==
    /\ format \in IntSpecs
    /\ args \in { <<IntV(n)>> : n \in IntVals }
    /\ pc = "start"
    /\ parsed = ZeroSpecifier
    /\ result = NoResult
    /\ InitPackage({})

SpecInt == InitInt /\ [][NextPad]_vars

----------------------------------------------------------------------------
(* formatInteger on specifiers of the form [align][sign][0][width]          *)
(* (TestEdgeCases: zero int)                                                *)

\* the specifiers: an optional alignment, an optional sign, an optional
\* zero flag, an optional width
ZeroPadSpecs ==
    { align \o sign \o zero \o width :
        align \in {<<>>, <<"<">>, <<">">>, <<"^">>},
        sign \in {<<>>, <<"+">>},
        zero \in {<<>>, <<"0">>},
        width \in {<<>>} \cup WidthDigits }

InitZeroPad ==
    /\ format \in ZeroPadSpecs
    /\ args \in { <<IntV(n)>> : n \in IntVals }
    /\ pc = "start"
    /\ parsed = ZeroSpecifier
    /\ result = NoResult
    /\ InitPackage({})

SpecZeroPad == InitZeroPad /\ [][NextPad]_vars

----------------------------------------------------------------------------
(* The two parsers on the same formats (fstr.go parseFormatFast, the regex  *)
(* parse; TestParse): here parsed is what the parser called returned, the   *)
(* literals of parse standing under segments                                *)

\* the number of parts such a format is assembled from
MaxParts == 4

\* the parts: two literal characters and three placeholders
ParseParts == { <<"a">>, <<" ">>, <<"{", "}">>, <<"{", "0", "}">>, <<"{", "n", "}">> }

ParseFormats ==
    { Concat(us) : us \in UNION { [1..k -> ParseParts] : k \in 0..MaxParts } }

InitParse ==
    /\ format \in ParseFormats
    /\ args = <<>>
    /\ pc = "start"
    /\ parsed = NoParse
    /\ result = NoResult
    /\ InitPackage({})

\* segments, placeholders = parseFormatFast(format, nil, nil)
ParseFast ==
    /\ pc = "start"
    /\ pc' = "fast"
    /\ parsed' = parseFormatFast(format)
    /\ UNCHANGED <<format, args, result>>
    /\ UNCHANGED fvars

\* the pair parse returns
parsePair(pr) == [segments |-> pr.literals, placeholders |-> pr.placeholders]

\* literals, placeholders := parse(format)
ParseRegex ==
    /\ pc = "start"
    /\ pc' = "regex"
    /\ parsed' = parsePair(parse(format))
    /\ UNCHANGED <<format, args, result>>
    /\ UNCHANGED fvars

NextParse ==
    \/ ParseFast
    \/ ParseRegex

SpecParse == InitParse /\ [][NextParse]_vars

----------------------------------------------------------------------------
(* F on formats whose placeholders stand at the ends, next to one another,  *)
(* after escaped braces, name an argument that is missing, or hold a        *)
(* condition (TestF, TestEdgeCases)                                         *)

\* "{} + {} = {}"
SumFormat == <<"{", "}", "+", "{", "}", "=", "{", "}">>

\* "v{0}a{2}a{}a": an index that two arguments do not reach
MissingFormat == <<"v", "{", "0", "}", "a", "{", "2", "}", "a", "{", "}", "a">>

\* "{{n}}={n}"
EscapedNameFormat == <<"{", "{", "n", "}", "}", "=", "{", "n", "}">>

\* the documented conditional, "v{:?empty?(none):(some)}"
CondFormat ==
    <<"v", "{", ":", "?", "empty", "?", "(", "none", ")", ":", "(", "some", ")", "}">>

\* the conditional that condRegex matches, "v{?empty(none):some}"
PlainCondFormat == <<"v", "{", "?", "empty", "(", "none", ")", ":", "some", "}">>

EdgeFormats ==
    { SumFormat,
      <<"v", "{", "}", "a", "{", "}">>,
      <<"{", "}", "{", "}">>,
      <<"a", "{", "}", "{", "}", "a">>,
      MissingFormat,
      EscapedNameFormat,
      <<"v", "{", "n", "}", "{", "{", "a", "}", "}">>,
      CondFormat,
      PlainCondFormat }

EdgeArgLists ==
    { <<IntV(1), IntV(2), IntV(3)>>, <<Str(<<"X">>), Str(<<"Y">>)>>, <<MapAnyV>>,
      <<Str(<<>>)>>, <<Str(<<"X">>)>> }

\* the caller calls F(format, args)
EdgeCall(p) ==
    /\ calls[p].pc = "idle"
    /\ \E fmt \in EdgeFormats, as \in EdgeArgLists :
          calls' = [calls EXCEPT ![p] = NewCall("F", fmt, as, "rlock")]
    /\ UNCHANGED <<svars, verbs, fmtMutex, globalCache, formatCache, mu, formatters,
                   regLog, got>>

InitEdge == NoSprintf /\ InitPackage({1})

NextEdge ==
    \/ \E p \in DOMAIN calls : EdgeCall(p)
    \/ \E p \in DOMAIN calls : getParsedFormatRLock(p)
    \/ \E p \in DOMAIN calls : getParsedFormatLookup(p)
    \/ \E p \in DOMAIN calls : getParsedFormatParse(p)
    \/ \E p \in DOMAIN calls : getParsedFormatLock(p)
    \/ \E p \in DOMAIN calls : getParsedFormatStore(p)
    \/ \E p \in DOMAIN calls : FRender(p)
    \/ \E p \in DOMAIN calls : Return(p)

SpecEdge == InitEdge /\ [][NextEdge]_vars

----------------------------------------------------------------------------
(* Sprintf on field chains over a struct that points to its own type        *)
(* (fstr.go: getCachedFieldIndices, buildFieldCache)                        *)

\* a list node
NodeV(next) == Struct("Node", (<<"Next">> :> next) @@ (<<"Val">> :> IntV(1)))

\* the base arguments: a node alone, a list of two, a pointer to a node, and
\* a Person
NodeBases ==
    { NodeV(NilPtr("Node")), NodeV(Ptr(NodeV(NilPtr("Node")))),
      Ptr(NodeV(NilPtr("Node"))), PersonV(Ptr(DetailV)) }

NodeNames == { <<"Next">>, <<"Val">>, <<"Name">>, <<"Detail">>, <<"Missing">> }

NodeChains == UNION { [1..n -> NodeNames] : n \in 1..MaxChain }

\* a call Sprintf("{0.<chain>}", base) or Sprintf("{<chain>}", base)
InitNode ==
    /\ \E chain \in NodeChains, prefix \in {<<>>, <<"0", ".">>} :
          format = <<"{">> \o prefix \o Join(chain, <<".">>) \o <<"}">>
    /\ \E base \in NodeBases : args = <<base>>
    /\ pc = "start"
    /\ parsed = NoParse
    /\ result = NoResult
    /\ InitPackage({})

SpecNode == InitNode /\ [][NextField]_vars

----------------------------------------------------------------------------
(* Sprintf("{}", i) for every int64 i (fstr.go: formatValFast, writeInt)    *)

InitInt64 ==
    /\ format = <<"{", "}">>
    /\ args \in { <<IntV(n)>> : n \in MinInt64..MaxInt64 }
    /\ pc = "start"
    /\ parsed = NoParse
    /\ result = NoResult
    /\ InitPackage({})

SpecInt64 == InitInt64 /\ [][NextField]_vars

----------------------------------------------------------------------------
(* Properties of Sprintf *)

\* ph is an auto placeholder: no index and no name
IsAuto(ph) == ph.PositionalIndex = NilIndex /\ Len(ph.FieldChain) = 0

\* the number of auto placeholders among the first j of phs
AutoBefore(phs, j) == Cardinality({ i \in 1..j : IsAuto(phs[i]) })

\* the tokens of s that are argument texts or the missing-value sentinel
ValueTokens(s) == SelectSeq(s, LAMBDA t : t \in {"X", "Y", "<no value>"})

\* a finished call whose placeholders are all `{}`
AllAuto == pc = "done" /\ \A j \in 1..Len(parsed.placeholders) :
                              parsed.placeholders[j] = ZeroPlaceholder

\* C1: with N placeholders `{}` and M arguments, the i-th placeholder renders
\* argument i for i < min(N, M), each of the others renders <no value>, and
\* the output holds no argument text besides these (an argument past the
\* N-th never shows)
C1_AutoPlaceholders ==
    AllAuto =>
        /\ ~result.panic
        /\ Len(result.pieces) = Len(parsed.placeholders)
        /\ \A j \in 1..Len(result.pieces) :
              result.pieces[j] = IF j <= Len(args) THEN formatValue(<<>>, args[j])
                                 ELSE NoValue
        /\ ValueTokens(result.s) = Concat(result.pieces)

\* three `{}` and two arguments: two arguments in order, then the sentinel
C1_Witness ==
    /\ AllAuto
    /\ Len(parsed.placeholders) = 3
    /\ args = <<Str(<<"X">>), Str(<<"Y">>)>>
    /\ result.s = <<"X", "Y", "<no value>">>

\* C2: an explicit {i} with i < len(args) renders args[i] wherever it stands,
\* and the k-th auto placeholder takes args[k] counting only the auto
\* placeholders before it, whatever explicit or named ones stand between
C2_ExplicitIndices ==
    pc = "done" =>
        \A j \in 1..Len(parsed.placeholders) :
            /\ ( /\ parsed.placeholders[j].PositionalIndex # NilIndex
                 /\ parsed.placeholders[j].PositionalIndex < Len(args)
                 /\ Len(parsed.placeholders[j].FieldChain) = 0 )
               => result.pieces[j] =
                     formatValue(parsed.placeholders[j].Spec,
                                 At(args, parsed.placeholders[j].PositionalIndex))
            /\ ( /\ IsAuto(parsed.placeholders[j])
                 /\ AutoBefore(parsed.placeholders, j - 1) < Len(args) )
               => result.pieces[j] =
                     formatValue(parsed.placeholders[j].Spec,
                                 At(args, AutoBefore(parsed.placeholders, j - 1)))

\* "{1}{}{0}" with X, Y: the explicit ones pick Y and X, the auto one still
\* takes the first argument
C2_Witness ==
    /\ pc = "done"
    /\ format = <<"{", "1", "}", "{", "}", "{", "0", "}">>
    /\ args = <<Str(<<"X">>), Str(<<"Y">>)>>
    /\ result.s = <<"Y", "X", "X">>

\* the positions of the format's unclosed braces: a "{" with no brace of
\* either kind after it
UnclosedBraces(fmt) ==
    { p \in 1..Len(fmt) : fmt[p] = "{" /\ \A q \in (p + 1)..Len(fmt) : fmt[q] \notin {"{", "}"} }

\* s ends with t
EndsWith(s, t) == Len(s) >= Len(t) /\ SubSeq(s, Len(s) - Len(t) + 1, Len(s)) = t

\* C4: when the format has a "{" with no "}" after it, the output ends with
\* that "{" and the text that follows it
C4_UnclosedBraceKept ==
    pc = "done" =>
        \A p \in UnclosedBraces(format) :
            ~result.panic /\ EndsWith(result.s, SubSeq(format, p, Len(format)))

\* a finished call on a format that ends in an unclosed brace
C4_Witness == pc = "done" /\ UnclosedBraces(format) # {} /\ ~result.panic

\* placeholder j of phs refers to an argument index that as does not have
OutOfRange(phs, j, as) ==
    \/ IsAuto(phs[j]) /\ AutoBefore(phs, j - 1) >= Len(as)
    \/ phs[j].PositionalIndex # NilIndex /\ phs[j].PositionalIndex >= Len(as)

\* C6: a placeholder whose argument index is out of range renders exactly
\* <no value>, whatever field chain or spec it carries
C6_OutOfRangeNoValue ==
    pc = "done" =>
        \A j \in 1..Len(parsed.placeholders) :
            OutOfRange(parsed.placeholders, j, args) => result.pieces[j] = NoValue

\* a finished call with an out-of-range placeholder that carries a field chain
C6_Witness ==
    /\ pc = "done"
    /\ \E j \in 1..Len(parsed.placeholders) :
          /\ OutOfRange(parsed.placeholders, j, args)
          /\ Len(parsed.placeholders[j].FieldChain) > 0
          /\ result.pieces[j] = InvalidField

----------------------------------------------------------------------------
(* Properties of field chains *)

\* the struct type typ has, at any depth, a field called name
HasNestedField(typ, name) == typ # "" /\ name \in DOMAIN buildFieldCache(typ)

RECURSIVE MeetsNil(_, _)
\* resolving the chain fields from the value v runs into a nil pointer: v is
\* one, or the field (direct, or nested in a struct field) or the map element
\* that the chain names leads to one
MeetsNil(v, fields) ==
    CASE v.k = "ptr" -> v.isnil \/ MeetsNil(v.elem, fields)
      [] v.k = "iface" -> v.dyn # Nil /\ MeetsNil(v.dyn, fields)
      [] v.k = "struct" /\ fields # <<>> ->
           IF Head(fields) \in DOMAIN v.f
           THEN MeetsNil(v.f[Head(fields)], Tail(fields))
           ELSE \E i \in 1..Len(StructType(v.t)) :
                   /\ HasNestedField(StructType(v.t)[i].elem, Head(fields))
                   /\ MeetsNil(v.f[StructType(v.t)[i].name], fields)
      [] v.k = "map" /\ fields # <<>> ->
           /\ Head(fields) \in DOMAIN v.m
           /\ MeetsNil(v.m[Head(fields)], Tail(fields))
      [] OTHER -> FALSE

\* C5: when resolving a placeholder's field chain on a struct or map argument
\* meets a nil pointer, the placeholder renders <invalid field> and the call
\* does not panic
C5_NilPointerInvalidField ==
    (pc = "done" /\ MeetsNil(args[1], parsed.placeholders[1].FieldChain)) =>
        ~result.panic /\ result.s = InvalidField

\* {0.Detail.City} on a Person without Detail: <invalid field>
C5_Witness ==
    /\ pc = "done"
    /\ args = <<PersonV(NilPtr("Detail"))>>
    /\ parsed.placeholders[1].FieldChain = << <<"Detail">>, <<"City">> >>
    /\ result.s = InvalidField

----------------------------------------------------------------------------
(* Properties of F and of the parse caches *)

\* caller p has finished a call of op
Done(p, op) == calls[p].pc = "done" /\ calls[p].op = op

\* C3: F returns a string and never panics, whatever the format and the
\* arguments; F("v{}", nil) returns "v<nil>"
C3_FNeverPanics ==
    \A p \in DOMAIN calls :
        Done(p, "F") =>
            /\ ~calls[p].result.panic
            /\ (calls[p].format = <<"v", "{", "}">> /\ calls[p].args = <<Nil>>)
               => calls[p].result.s = <<"v", "<nil>">>

\* a finished F call with two arguments, the second of them nil
C3_Witness ==
    \E p \in DOMAIN calls :
        /\ Done(p, "F")
        /\ calls[p].args = <<Str(<<"X">>), Nil>>
        /\ ~calls[p].result.panic

\* C7: neither parse cache ever holds more than maxCacheSize entries
C7_CacheBounded ==
    /\ Cardinality(DOMAIN globalCache) <= maxCacheSize
    /\ Cardinality(DOMAIN formatCache) <= maxCacheSize

\* the cache is at the ceiling and a call that missed is about to store one
\* more format
C7_Witness ==
    /\ Cardinality(DOMAIN globalCache) = maxCacheSize
    /\ \E p \in DOMAIN calls :
          calls[p].pc = "store" /\ calls[p].format \notin DOMAIN globalCache

\* C8: every entry of either cache equals a fresh parse of its format, what
\* a call holds after getParsedFormat (or the cached Sprintf's lookup) equals
\* a fresh parse whether the lookup hit or missed, and the outcome of every
\* call equals that of rendering from a fresh parse
C8_CacheTransparent ==
    /\ \A f \in DOMAIN globalCache : globalCache[f] = newParsedFormat(f)
    /\ \A f \in DOMAIN formatCache : formatCache[f] = newParsedResult(f)
    /\ \A p \in DOMAIN calls :
          /\ (calls[p].pc \in {"render", "done"} /\ calls[p].op = "F")
             => calls[p].pf = newParsedFormat(calls[p].format)
          /\ Done(p, "F")
             => calls[p].result = renderF(newParsedFormat(calls[p].format), calls[p].args)
          /\ (calls[p].pc = "render" /\ calls[p].op = "Sprintf")
             => calls[p].pf = newParsedResult(calls[p].format)
          /\ (Done(p, "Sprintf") /\ HasBrace(calls[p].format))
             => calls[p].result =
                   renderSprintf(newParsedResult(calls[p].format), calls[p].args)

\* an F call that hit the cache while it held another format as well, and
\* rendered an argument
C8_Witness ==
    \E p \in DOMAIN calls :
        /\ Done(p, "F")
        /\ calls[p].hit
        /\ Cardinality(DOMAIN globalCache) > 1
        /\ calls[p].result.s = <<"v", "X">>

\* every F call that has returned
SameAsAlone(p) ==
    calls[p].result = renderF(newParsedFormat(calls[p].format), calls[p].args)

\* C9: under every interleaving of concurrent F calls, readers and the
\* writer of the cache exclude each other, each call returns what the same
\* call returns when run alone, and once a call has returned the cache holds
\* for its format an entry equal to parse(format)
C9_ConcurrentCalls ==
    /\ mu.writer # NoOne => mu.readers = {}
    /\ \A p \in DOMAIN calls :
          /\ calls[p].pc = "lookup" <=> p \in mu.readers
          /\ calls[p].pc = "store" <=> mu.writer = p
          /\ Done(p, "F") =>
                /\ SameAsAlone(p)
                /\ calls[p].format \in DOMAIN globalCache
                /\ globalCache[calls[p].format] = newParsedFormat(calls[p].format)

\* two callers missed on the same format in overlapping calls: one has
\* stored and returned, the other holds the lock to store its own parse
C9_Witness ==
    /\ Done(1, "F") /\ ~calls[1].hit
    /\ calls[2].pc = "store"
    /\ calls[2].format = calls[1].format
    /\ calls[2].args # calls[1].args

----------------------------------------------------------------------------
(* Properties of the formatter registry *)

\* the registrations for t among the first n of log
RegistrationsOf(log, n, t) == { i \in 1..n : log[i][1] = t }

\* the greatest element of a non-empty set of numbers
Max(S) == CHOOSE x \in S : \A y \in S : y <= x

\* what the last registration for t among the first n of log calls for
LastRegistered(log, n, t) ==
    IF RegistrationsOf(log, n, t) = {} THEN [f |-> "", ok |-> FALSE]
    ELSE [f |-> log[Max(RegistrationsOf(log, n, t))][2], ok |-> TRUE]

\* C10: GetFormatter(t) returns the formatter of the most recent
\* RegisterFormatter call for t with ok = true, and ok = false when there was
\* none; hence a registration for one type leaves every other type's
\* formatter as it was
C10_LastRegistrationWins ==
    /\ \A t \in Types :
          GetFormatterOf(formatters, t) = LastRegistered(regLog, Len(regLog), t)
    /\ got.at > 0 =>
          [f |-> got.f, ok |-> got.ok] = LastRegistered(regLog, got.at, got.t)

\* Custom was registered twice with different formatters, another type after
\* it, and GetFormatter(Custom) then returned the second formatter
C10_Witness ==
    /\ got.at = 4
    /\ got.t = "Custom"
    /\ regLog[2] = <<"Custom", "StringFormatter">>
    /\ regLog[3] = <<"Custom", "IntegerFormatter">>
    /\ regLog[4][1] = "string"
    /\ got.ok /\ got.f = "IntegerFormatter"

----------------------------------------------------------------------------
(* Properties of concurrent registry calls *)

\* the goroutines inside a critical section of fmtMutex
Writers == { p \in DOMAIN calls : calls[p].pc \in {"write", "unlock"} }

Readers == { p \in DOMAIN calls : calls[p].pc \in {"read", "runlock"} }

\* the values that the calls of operation op registered under key
RegisteredBy(op, key) ==
    { calls[p].val : p \in { q \in DOMAIN calls : calls[q].op = op /\ calls[q].key = key } }

\* every key that a call of op registered is in map m with the value of one
\* of those calls
NothingLost(op, m) ==
    \A p \in DOMAIN calls :
        calls[p].op = op =>
            /\ calls[p].key \in DOMAIN m
            /\ m[calls[p].key] \in RegisteredBy(op, calls[p].key)

\* C11: under every interleaving of concurrent RegisterFormatter,
\* RegisterVerb, GetFormatter and GetFormattingVerb calls, at most one writer
\* is inside fmtMutex and never together with a reader; and once all calls
\* have returned, every registered type and verb name is in its map with the
\* value of one of the calls that registered it.
C11_RegistryExclusiveNoLoss ==
    /\ Cardinality(Writers) <= 1
    /\ Writers # {} => Readers = {}
    /\ (\A p \in DOMAIN calls : calls[p].pc = "returned") =>
          /\ NothingLost("RegisterFormatter", formatters)
          /\ NothingLost("RegisterVerb", verbs)

\* two goroutines registered different formatters for one type, a third
\* registered a verb, and all have returned
C11_Witness ==
    /\ \A p \in DOMAIN calls : calls[p].pc = "returned"
    /\ \E p, q, r \in DOMAIN calls :
          /\ calls[p].op = "RegisterFormatter" /\ calls[q].op = "RegisterFormatter"
          /\ calls[p].key = calls[q].key /\ calls[p].val # calls[q].val
          /\ calls[r].op = "RegisterVerb"
          /\ calls[r].key \in DOMAIN verbs

----------------------------------------------------------------------------
(* Properties of F with registered formatters and verbs *)

\* the placeholder of the call's format (each format of CustomFormats has
\* one, after the literal "v") and the argument F picks for it
ThePlaceholder(p) == At(calls[p].pf.placeholders, 0)

TheArg(p) == At(calls[p].args, 0)

\* a formatter is registered for the type of the non-nil argument of p's
\* call, and it returns
HasFormatter(p) ==
    /\ TheArg(p) # Nil
    /\ TypeOf(TheArg(p)) \in DOMAIN formatters
    /\ formatters[TypeOf(TheArg(p))] # "PanicFormatter"

\* what the registered formatter returns for the argument and the specifier
FormatterText(p) ==
    Format(formatters[TypeOf(TheArg(p))], TheArg(p), ThePlaceholder(p).specifier)

\* the color step and then the condition step on a text
Decorated(ph, text, arg) ==
    IF ph.condition # <<>>
    THEN (IF conditionHolds(ph.condition, arg) THEN ph.trueVal ELSE ph.falseVal)
    ELSE IF ph.color # <<>> THEN applyColor(text, ph.color)
    ELSE text

\* C12: when a formatter is registered for the runtime type of the non-nil
\* value F resolved for a placeholder, the text of the placeholder is what
\* that formatter returns for the value and the specifier, with no built-in
\* rendering, after the color step and the condition step of F.
C12_CustomFormatterFirst ==
    \A p \in DOMAIN calls :
        (Done(p, "F") /\ HasFormatter(p)) =>
            /\ ~calls[p].result.panic
            /\ calls[p].result.s =
                  <<"v">> \o Decorated(ThePlaceholder(p), FormatterText(p), TheArg(p))

\* F has rendered a string argument through the registered CustomFormatter
\* and wrapped its text in the color of the placeholder
C12_Witness ==
    \E p \in DOMAIN calls :
        /\ Done(p, "F") /\ HasFormatter(p)
        /\ TheArg(p) = Str(<<"X">>)
        /\ formatters["string"] = "CustomFormatter"
        /\ ThePlaceholder(p).color = <<"red">>
        /\ calls[p].result.s = <<"v", "ESC[31m", "Custom(", "X", ")", "ESC[0m">>

\* C13: after RegisterVerb(name, handler), the text F renders for a
\* placeholder whose format type tag is name is what handler returns for the
\* raw resolved value and the specifier, in place of the built-in rendering.
C13_VerbHandlerUsed ==
    \A p \in DOMAIN calls :
        (/\ Done(p, "F")
         /\ TheArg(p) # Nil
         /\ ThePlaceholder(p).specifier.Type \in DOMAIN verbs) =>
            calls[p].result.s =
                <<"v">> \o Handle(verbs[ThePlaceholder(p).specifier.Type].handler,
                                  TheArg(p), ThePlaceholder(p).specifier)

\* the verb x is registered and F has rendered a string through a
\* placeholder whose type tag is x
C13_Witness ==
    \E p \in DOMAIN calls :
        /\ Done(p, "F")
        /\ TheArg(p) = Str(<<"X">>)
        /\ ThePlaceholder(p).specifier.Type = <<"x">>
        /\ <<"x">> \in DOMAIN verbs
        /\ verbs[<<"x">>].handler = "testHandler"
        /\ ~calls[p].result.panic

\* what F(format, args) does for the format and arguments of p's call
FOf(p) == renderF(newParsedFormat(calls[p].format), calls[p].args)

\* what Safe has to return given the outcome r of F
SafeAnswer(r, res) ==
    /\ ~res.panic
    /\ r.panic => res.s = <<"<format error>">> /\ res.err
    /\ ~r.panic => res.s = r.s /\ ~res.err

\* C14: Safe(format, args) never propagates a panic: when rendering panics
\* it returns "<format error>" with a non-nil error, and when rendering does
\* not panic it returns exactly F(format, args) with a nil error.
C14_SafeRecovers ==
    \A p \in DOMAIN calls : Done(p, "Safe") => SafeAnswer(FOf(p), calls[p].result)

\* Safe has returned "<format error>" and an error for a string argument
\* whose registered formatter panics
C14_Witness ==
    \E p \in DOMAIN calls :
        /\ Done(p, "Safe")
        /\ TheArg(p) = Str(<<"X">>)
        /\ "string" \in DOMAIN formatters
        /\ formatters["string"] = "PanicFormatter"
        /\ calls[p].result.s = <<"<format error>">>
        /\ calls[p].result.err

----------------------------------------------------------------------------
(* Properties of Validate *)

\* the number of tokens c among the first n of s
RECURSIVE CountIn(_, _, _)
CountIn(s, c, n) ==
    IF n = 0 THEN 0 ELSE CountIn(s, c, n - 1) + (IF s[n] = c THEN 1 ELSE 0)

\* how many braces are open after the first n tokens of s
Depth(s, n) == CountIn(s, "{", n) - CountIn(s, "}", n)

\* a closing brace at position i of s (0-based) that closes nothing
UnmatchedCloser(s, i) ==
    /\ At(s, i) = "}"
    /\ Depth(s, i) = 0
    /\ \A j \in 0..(i - 1) : Depth(s, j + 1) >= 0

\* an opening brace at position i of s that no later brace closes
UnclosedOpener(s, i) ==
    /\ At(s, i) = "{"
    /\ \A j \in (i + 1)..Len(s) : Depth(s, j) > Depth(s, i)

Balanced(s) == Depth(s, Len(s)) = 0 /\ \A n \in 0..Len(s) : Depth(s, n) >= 0

\* C15: Validate(format) returns nil exactly when the braces of format are
\* balanced; otherwise the error tells an unmatched closing brace from an
\* unclosed opening brace and, in both cases, carries the position in format
\* of the offending brace.
C15_ValidatePosition ==
    pc = "done" =>
        /\ result.nil <=> Balanced(format)
        /\ ~result.nil =>
              /\ result.Pos \in 0..(Len(format) - 1)
              /\ \/ /\ result.Err = ErrUnexpectedClosingBrace
                    /\ UnmatchedCloser(format, result.Pos)
                 \/ /\ result.Err = ErrUnclosedBrace
                    /\ UnclosedOpener(format, result.Pos)

\* Validate has reported an unclosed opening brace
C15_Witness ==
    /\ pc = "done"
    /\ format = <<"a", "{", "a">>
    /\ ~result.nil
    /\ result.Err = ErrUnclosedBrace

----------------------------------------------------------------------------
(* Properties of Sprintf on doubled braces *)

RECURSIVE Unescaped(_)
\* s with every "{{" replaced by "{" and every "}}" by "}"
Unescaped(s) ==
    IF s = <<>> THEN <<>>
    ELSE IF Len(s) >= 2 /\ s[1] \in {"{", "}"} /\ s[2] = s[1]
    THEN <<s[1]>> \o Unescaped(SubSeq(s, 3, Len(s)))
    ELSE <<s[1]>> \o Unescaped(Tail(s))

\* C16: in Sprintf, for a format made only of non-brace characters and
\* doubled braces, the output is the format with every "{{" replaced by "{"
\* and every "}}" by "}", no argument is consumed, and no "{" of a doubled
\* brace is taken for the opener of a placeholder.
C16_DoubledBraces ==
    /\ pc \in {"parsed", "done"} => parsed.placeholders = <<>>
    /\ pc = "done" =>
          /\ ~result.panic
          /\ result.s = Unescaped(format)
          /\ result.pieces = <<>>

\* Sprintf("{{0}}", "X") has returned "{0}"
C16_Witness ==
    /\ pc = "done"
    /\ format = <<"{", "{", "0", "}", "}">>
    /\ args = <<Str(<<"X">>)>>
    /\ result.s = <<"{", "0", "}">>

----------------------------------------------------------------------------
(* Properties of field names *)

RECURSIVE MissesField(_, _)
\* following the chain fields from the value v through direct fields, map
\* keys, pointers and interfaces arrives at a struct of which the next
\* component is not the name of a direct field
MissesField(v, fields) ==
    CASE v.k = "ptr" -> ~v.isnil /\ MissesField(v.elem, fields)
      [] v.k = "iface" -> v.dyn # Nil /\ MissesField(v.dyn, fields)
      [] v.k = "struct" /\ fields # <<>> ->
           IF Head(fields) \in DOMAIN v.f
           THEN MissesField(v.f[Head(fields)], Tail(fields))
           ELSE TRUE
      [] v.k = "map" /\ fields # <<>> ->
           /\ Head(fields) \in DOMAIN v.m
           /\ MissesField(v.m[Head(fields)], Tail(fields))
      [] OTHER -> FALSE

\* C17: a chain component resolves against a struct only when it is the
\* exact, case-sensitive name of a direct field of that struct: any other
\* name renders <invalid field>, and a same-named field of a nested struct is
\* never substituted.
C17_DirectFieldsOnly ==
    (pc = "done" /\ MissesField(args[1], parsed.placeholders[1].FieldChain)) =>
        ~result.panic /\ result.s = InvalidField

\* {0.city} on a Person: City is no field of Person and city no field at
\* all, and the placeholder renders <invalid field>
C17_Witness ==
    /\ pc = "done"
    /\ args = <<PersonV(Ptr(DetailV))>>
    /\ parsed.placeholders[1].FieldChain = << <<"name">> >>
    /\ result.s = InvalidField

----------------------------------------------------------------------------
(* Properties of longer field chains *)

\* resolving the chain B on the outcome v of an earlier resolution
ThenResolve(v, B) == IF v = Panic THEN Panic ELSE getFieldChainValueFast(v, B)

\* what Sprintf returns for a placeholder without a spec whose value
\* resolved to v
Rendered(v) ==
    IF v = Panic THEN [panic |-> TRUE, s |-> <<>>]
    ELSE [panic |-> FALSE, s |-> formatValue(<<>>, v)]

\* resolving the first j components of chain on base, and the others on the
\* result
InTwoSteps(base, chain, j) ==
    ThenResolve(getFieldChainValueFast(base, SubSeq(chain, 1, j)),
                SubSeq(chain, j + 1, Len(chain)))

\* C18: resolving {0.A.B} gives the same result as resolving {0.A} and then
\* resolving .B on that result, wherever the chain is cut, for structs,
\* string-keyed maps, pointers and interface-typed map values at any depth.
C18_ChainTransitive ==
    pc = "done" =>
        \A j \in 1..(Len(parsed.placeholders[1].FieldChain) - 1) :
            Rendered(InTwoSteps(args[1], parsed.placeholders[1].FieldChain, j))
                = [panic |-> result.panic, s |-> result.s]

\* {0.Detail.City} on a Person renders the city, as .City on its Detail
C18_Witness ==
    /\ pc = "done"
    /\ args = <<PersonV(Ptr(DetailV))>>
    /\ parsed.placeholders[1].FieldChain = << <<"Detail">>, <<"City">> >>
    /\ result.s = <<"Wonderland">>
    /\ Rendered(InTwoSteps(args[1], parsed.placeholders[1].FieldChain, 1)).s
          = <<"Wonderland">>

----------------------------------------------------------------------------
(* Properties of nil arguments *)

\* placeholder j of phs has no spec and no field chain, and picks an
\* argument of as that is present and nil
PicksNil(phs, j, as) ==
    /\ phs[j].Spec = <<>>
    /\ Len(phs[j].FieldChain) = 0
    /\ \/ /\ phs[j].PositionalIndex # NilIndex
          /\ phs[j].PositionalIndex < Len(as)
          /\ At(as, phs[j].PositionalIndex) = Nil
       \/ /\ phs[j].PositionalIndex = NilIndex
          /\ AutoBefore(phs, j - 1) < Len(as)
          /\ At(as, AutoBefore(phs, j - 1)) = Nil

\* C19: an argument that is present but nil renders as the nil sentinel
\* <nil>, which is not the sentinel <no value> of a missing argument.
C19_NilRendersNil ==
    /\ NilText # NoValue
    /\ pc = "done" =>
          \A j \in 1..Len(parsed.placeholders) :
              PicksNil(parsed.placeholders, j, args) => result.pieces[j] = NilText

\* Sprintf("a{}", nil) has returned
C19_Witness ==
    /\ pc = "done"
    /\ format = <<"a", "{", "}">>
    /\ args = <<Nil>>
    /\ PicksNil(parsed.placeholders, 1, args)
    /\ ~result.panic

----------------------------------------------------------------------------
(* Properties of formatString *)

\* the text with n fill characters placed as the alignment says
Filled(s, spec, n) ==
    CASE spec.Alignment = <<"<">> -> s \o Repeat(fillChar(spec), n)
      [] spec.Alignment = <<"^">> ->
           Repeat(fillChar(spec), n \div 2) \o s \o Repeat(fillChar(spec), n - n \div 2)
      [] OTHER -> Repeat(fillChar(spec), n) \o s

\* what the width asks for, the text being Len(s) characters long
Widened(s, spec) ==
    IF spec.Width <= Len(s) THEN s ELSE Filled(s, spec, spec.Width - Len(s))

\* C20: formatString with width W and no precision returns the text unchanged
\* when W is at most its length in characters, and otherwise exactly W
\* characters: the text and the fill on the right for "<", on the left for
\* ">" or no alignment, on both sides for "^" with the odd one on the right
C20_WidthInCharacters ==
    (pc = "done" /\ parsed.Precision = 0 /\ parsed.Alignment \in {<<>>, <<"<">>, <<">">>, <<"^">>})
        => /\ result.s = Widened(args[1].s, parsed)
           /\ parsed.Width > Len(args[1].s) => Len(result.s) = parsed.Width

\* a one-letter text centred in four columns: one fill before, two after
C20_AsciiCentred ==
    /\ pc = "done"
    /\ format = <<"*", "^", "4">>
    /\ args = <<Str(<<"t">>)>>
    /\ result.s = <<"*", "t", "*", "*">>

\* the same on ASCII texts only, where bytes and characters agree
C20_WidthOfAscii ==
    (pc = "done" /\ ByteLen(args[1].s) = Len(args[1].s))
        => result.s = Widened(args[1].s, parsed)

\* a four-byte character in five columns gets one fill character
C20_Witness ==
    /\ pc = "done"
    /\ format = <<">", "5">>
    /\ args = <<Str(<<"crab">>)>>
    /\ result.s = <<" ", "crab">>

----------------------------------------------------------------------------
(* Properties of parseFormatSpecifier *)

RECURSIVE DigitsLen(_)
\* the number of digits s begins with
DigitsLen(s) == IF s # <<>> /\ Head(s) \in Digits THEN 1 + DigitsLen(Tail(s)) ELSE 0

\* the number the digits s spell, 0 when there are none
NumberOf(s) == IF s = <<>> THEN 0 ELSE ParseInt(s)

\* the width digits of a specifier [width][.precision][type]
WidthPart(s) == SubSeq(s, 1, DigitsLen(s))

\* what follows the width digits
AfterWidth(s) == SubSeq(s, DigitsLen(s) + 1, Len(s))

\* the precision digits of a specifier [width][.precision][type]
PrecisionOf(rest) ==
    IF rest # <<>> /\ Head(rest) = "." THEN SubSeq(rest, 2, 1 + DigitsLen(Tail(rest)))
    ELSE <<>>

\* the trailing type letter, empty when the specifier ends in a digit
TypePart(s) ==
    IF s # <<>> /\ s[Len(s)] \notin Digits \cup {"."} THEN <<s[Len(s)]>> ELSE <<>>

\* C21: for a spec [width][.precision][type letter], parseFormatSpecifier
\* returns Width equal to the width digits, Precision equal to the precision
\* digits also when a type letter follows, and Type equal to the trailing
\* letter, or empty when the spec ends in a digit
C21_SpecifierParts ==
    pc # "start"
        => /\ parsed.Width = NumberOf(WidthPart(format))
           /\ parsed.Precision = NumberOf(PrecisionOf(AfterWidth(format)))
           /\ parsed.Type = TypePart(format)

\* "10" parsed: Width 10, and the last digit taken as the type
C21_Witness ==
    /\ pc = "parsed"
    /\ format = <<"1", "0">>
    /\ parsed.Width = 10
    /\ parsed.Type = <<"0">>

\* "10.2f" parsed: the precision is lost to the type letter
C21_PrecisionLost ==
    /\ pc = "parsed"
    /\ format = <<"1", "0", ".", "2", "f">>
    /\ parsed.Width = 10
    /\ parsed.Precision = 0
    /\ parsed.Type = <<"f">>

\* the parts of C21 that hold: the width of a specifier with a precision or
\* with nothing after the width, the precision when no letter follows, and
\* the type when there is a letter
C21_PartsThatHold ==
    pc # "start"
        => /\ (AfterWidth(format) = <<>> \/ Head(AfterWidth(format)) = ".")
                => parsed.Width = NumberOf(WidthPart(format))
           /\ TypePart(format) = <<>>
                => parsed.Precision = NumberOf(PrecisionOf(AfterWidth(format)))
           /\ TypePart(format) # <<>> => parsed.Type = TypePart(format)

----------------------------------------------------------------------------
(* Properties of the conditional placeholder *)

\* the branch literals of CondFormat as they are written
TrueBranch == <<"(", "none", ")">>

FalseBranch == <<"(", "some", ")">>

\* p's call of F on CondFormat with a string has returned
CondDone(p) ==
    /\ Done(p, "F")
    /\ calls[p].format = CondFormat
    /\ TheArg(p) # Nil
    /\ TheArg(p).k = "string"
    /\ ~calls[p].result.panic

\* C22: a placeholder with the condition ?cond?(T):(F) renders exactly one of
\* its two branch literals, chosen by cond on the raw argument: (T) for the
\* empty string and (F) for a non-empty one under `empty`, parsePlaceholder
\* yielding the condition `empty`, trueVal (T) and falseVal (F)
C22_ConditionPicksBranch ==
    \A p \in DOMAIN calls :
        CondDone(p) =>
            /\ ThePlaceholder(p).condition = <<"empty">>
            /\ ThePlaceholder(p).trueVal = TrueBranch
            /\ ThePlaceholder(p).falseVal = FalseBranch
            /\ calls[p].result.s =
                  <<"v">> \o (IF TheArg(p).s = <<>> THEN TrueBranch ELSE FalseBranch)

\* F has rendered the empty string through CondFormat and written the
\* false branch
C22_Witness ==
    \E p \in DOMAIN calls :
        /\ CondDone(p)
        /\ TheArg(p) = Str(<<>>)
        /\ ThePlaceholder(p).condition = <<"empty", "?">>
        /\ ThePlaceholder(p).trueVal = <<"none">>
        /\ calls[p].result.s = <<"v">> \o FalseBranch

\* what holds of every conditional: the text written is one of the two
\* parsed branches, the one conditionHolds picks on the raw argument
C22_OneParsedBranch ==
    \A p \in DOMAIN calls :
        (/\ Done(p, "F") /\ calls[p].format \in {CondFormat, PlainCondFormat}
         /\ TheArg(p).k = "string") =>
            calls[p].result.s =
                <<"v">> \o (IF conditionHolds(ThePlaceholder(p).condition, TheArg(p))
                            THEN ThePlaceholder(p).trueVal
                            ELSE ThePlaceholder(p).falseVal)

----------------------------------------------------------------------------
(* Properties of formatInteger *)

\* the base a type tag stands for
BaseOf(type) ==
    CASE type = <<"b">> -> 2 [] type = <<"o">> -> 8 [] type \in {<<"x">>, <<"X">>} -> 16
      [] OTHER -> 10

\* the prefix of a type tag in alternate form
PrefixOf(type) ==
    CASE type = <<"b">> -> <<"0", "b">> [] type = <<"o">> -> <<"0", "o">>
      [] type = <<"x">> -> <<"0", "x">> [] type = <<"X">> -> <<"0", "X">>
      [] OTHER -> <<>>

\* the digits of a magnitude under a type tag
Magnitude(n, type) ==
    IF type = <<"X">> THEN ToUpper(FormatInt(n, 16)) ELSE FormatInt(n, BaseOf(type))

\* the sign written before v
SignOf(v, sign) ==
    IF v < 0 THEN <<"-">> ELSE IF sign \in {<<"+">>, <<" ">>} THEN sign ELSE <<>>

\* the integer as C23 describes it: sign, prefix, digits
Numeral(v, spec) ==
    SignOf(v, spec.Sign)
    \o (IF spec.Alternate THEN PrefixOf(spec.Type) ELSE <<>>)
    \o Magnitude(IF v < 0 THEN 0 - v ELSE v, spec.Type)

\* C23: formatInteger renders v in base 2, 8, 10 or 16 by the type tag, with
\* lowercase digits for x and uppercase for X; in alternate form the prefix
\* stands immediately before the first digit, also for negative v; a + or
\* space sign is added only when v is not negative
C23_IntegerNumeral ==
    (pc = "done" /\ args[1].k = "int") => result.s = Numeral(args[1].n, parsed)

\* -10 in alternate hexadecimal: the prefix stands before the minus sign
C23_Witness ==
    /\ pc = "done"
    /\ format = <<"#", "x">>
    /\ args = <<IntV(-10)>>
    /\ result.s = <<"0", "x", "-", "a">>

\* C23 for the integers that are not negative, and for the negative ones
\* without the alternate form
C23_NumeralUnlessNegativeAlternate ==
    (pc = "done" /\ args[1].k = "int" /\ (args[1].n >= 0 \/ ~parsed.Alternate))
        => result.s = Numeral(args[1].n, parsed)

\* 15 with the sign + in uppercase alternate hexadecimal
C23_UpperHex ==
    /\ pc = "done"
    /\ format = <<"+", "#", "X">>
    /\ args = <<IntV(15)>>
    /\ result.s = <<"+", "0", "X", "F">>

----------------------------------------------------------------------------
(* Properties of the zero-pad flag *)

\* the sign, n zeros, the digits
ZeroFilled(v, spec, n) ==
    SignOf(v, spec.Sign) \o Repeat("0", n)
    \o Magnitude(IF v < 0 THEN 0 - v ELSE v, spec.Type)

\* an integer under the zero-pad flag: zeros between sign and digits up to
\* the width when no alignment is given, the alignment's padding otherwise
ZeroPadded(v, spec, numeral) ==
    IF spec.Alignment # <<>> THEN Widened(numeral, spec)
    ELSE IF spec.Width <= Len(numeral) THEN numeral
    ELSE ZeroFilled(v, spec, spec.Width - Len(numeral))

\* C24: an integer rendered with the zero-pad flag and width W comes out W
\* characters long with the sign first, then the padding zeros, then the
\* digits, and the flag acts as fill 0 with right alignment only when the
\* spec gives no explicit alignment
C24_ZeroPadAfterSign ==
    (pc = "done" /\ parsed.ZeroPad)
        => result.s = ZeroPadded(args[1].n, parsed, Numeral(args[1].n, parsed))

\* 0 under "+05": the zeros stand before the sign
C24_Witness ==
    /\ pc = "done"
    /\ format = <<"+", "0", "5">>
    /\ args = <<IntV(0)>>
    /\ result.s = <<"0", "0", "0", "+", "0">>

\* 7 under "<03": zeros on the left although the alignment is left
C24_AlignmentIgnored ==
    /\ pc = "done"
    /\ format = <<"<", "0", "3">>
    /\ args = <<IntV(7)>>
    /\ result.s = <<"0", "0", "7">>

\* C24 where no sign is written and no alignment is given
C24_ZeroPadUnsigned ==
    (/\ pc = "done" /\ parsed.ZeroPad /\ parsed.Alignment = <<>>
     /\ SignOf(args[1].n, parsed.Sign) = <<>>)
        => /\ result.s = ZeroPadded(args[1].n, parsed, Numeral(args[1].n, parsed))
           /\ Len(result.s) >= parsed.Width

----------------------------------------------------------------------------
(* Properties of the two parsers *)

RECURSIVE LiteralsFrom(_, _, _, _)
\* the literal texts of a format of well-formed placeholders, from index i
\* on: done are the literals completed, cur is the one under way
LiteralsFrom(fmt, i, done, cur) ==
    IF i >= Len(fmt) THEN Append(done, cur)
    ELSE IF At(fmt, i) = "{"
    THEN LiteralsFrom(fmt, IndexByte(fmt, "}", i) + 1, Append(done, cur), <<>>)
    ELSE LiteralsFrom(fmt, i + 1, done, Append(cur, At(fmt, i)))

\* the literal before each placeholder, and the one after the last
LiteralsOf(fmt) == LiteralsFrom(fmt, 0, <<>>, <<>>)

RECURSIVE NonEmpty(_)
\* the texts of a list that are not empty
NonEmpty(ls) ==
    IF ls = <<>> THEN <<>>
    ELSE IF Head(ls) = <<>> THEN NonEmpty(Tail(ls))
    ELSE <<Head(ls)>> \o NonEmpty(Tail(ls))

\* a list of texts without its last one when that is empty
DropEmptyLast(ls) ==
    IF ls # <<>> /\ ls[Len(ls)] = <<>> THEN SubSeq(ls, 1, Len(ls) - 1) ELSE ls

\* C25: both parsers return exactly len(placeholders)+1 literal segments,
\* segment i being the literal text before placeholder i and the last the
\* text after the last placeholder, empty segments included
C25_SegmentsAroundPlaceholders ==
    pc \in {"fast", "regex"}
        => /\ Len(parsed.segments) = Len(parsed.placeholders) + 1
           /\ parsed.segments = LiteralsOf(format)

\* "{}" parsed by parseFormatFast: one placeholder and the one segment
\* before it
C25_Witness ==
    /\ pc = "fast"
    /\ format = <<"{", "}">>
    /\ Len(parsed.placeholders) = 1
    /\ parsed.segments = << <<>> >>

\* "{} {}" parsed by the regex parse: two placeholders and one literal
C25_RegexDropsEmpty ==
    /\ pc = "regex"
    /\ format = <<"{", "}", " ", "{", "}">>
    /\ Len(parsed.placeholders) = 2
    /\ parsed.segments = << <<" ">> >>

\* what the parsers do return: parseFormatFast all the literals but an empty
\* last one, the regex parse the literals that are not empty
C25_SegmentsKept ==
    /\ pc = "fast" => parsed.segments = DropEmptyLast(LiteralsOf(format))
    /\ pc = "regex" => parsed.segments = NonEmpty(LiteralsOf(format))

----------------------------------------------------------------------------
(* Properties of F on placeholders at the ends and next to one another *)

\* every brace of fmt belongs to a placeholder "{}"
AutoOnly(fmt) ==
    \A i \in 1..Len(fmt) :
        /\ fmt[i] = "{" => (i < Len(fmt) /\ fmt[i + 1] = "}")
        /\ fmt[i] = "}" => (i > 1 /\ fmt[i - 1] = "{")

\* the text of a string or an integer under the empty specifier
PlainText(v) == IF v.k = "string" THEN v.s ELSE FormatInt(v.n, 10)

\* the text of the j-th "{}" of a format: the j-th argument, or the
\* missing-value sentinel
AutoText(as, j) == IF j < Len(as) THEN PlainText(At(as, j)) ELSE NilText

RECURSIVE AutoRendered(_, _, _, _)
\* a format of "{}" placeholders with each placeholder replaced, in place, by
\* the text of its argument, from index i and placeholder j on
AutoRendered(fmt, i, as, j) ==
    IF i >= Len(fmt) THEN <<>>
    ELSE IF At(fmt, i) = "{"
    THEN AutoText(as, j) \o AutoRendered(fmt, i + 2, as, j + 1)
    ELSE <<At(fmt, i)>> \o AutoRendered(fmt, i + 1, as, j)

\* p's call of F has returned and took the positional loop
Positional(p) == Done(p, "F") /\ Len(calls[p].args) # 1

\* C26: F renders every placeholder of the format exactly once, in format
\* order and interleaved with the literal text in its original position, also
\* when a placeholder stands at the start or end of the format or next to
\* another placeholder
C26_PlaceholdersInPlace ==
    \A p \in DOMAIN calls :
        (Positional(p) /\ AutoOnly(calls[p].format)) =>
            /\ ~calls[p].result.panic
            /\ calls[p].result.s = AutoRendered(calls[p].format, 0, calls[p].args, 0)

\* F("{} + {} = {}", 1, 2, 3) has returned "+1=2" (blanks left out)
C26_Witness ==
    \E p \in DOMAIN calls :
        /\ Positional(p)
        /\ calls[p].format = SumFormat
        /\ calls[p].args = <<IntV(1), IntV(2), IntV(3)>>
        /\ calls[p].result.s = <<"+", "1", "=", "2">>

\* a literal text stands before every placeholder of fmt
LiteralBeforeEach(fmt) ==
    \A i \in 1..Len(fmt) : fmt[i] = "{" => (i > 1 /\ fmt[i - 1] \notin {"{", "}"})

\* C26 for the formats in which a literal stands before every placeholder
C26_InPlaceAfterLiterals ==
    \A p \in DOMAIN calls :
        (Positional(p) /\ AutoOnly(calls[p].format) /\ LiteralBeforeEach(calls[p].format)) =>
            calls[p].result.s = AutoRendered(calls[p].format, 0, calls[p].args, 0)

\* F("v{}a{}", "X", "Y") has returned "vXaY"
C26_AfterLiterals ==
    \E p \in DOMAIN calls :
        /\ Positional(p)
        /\ calls[p].format = <<"v", "{", "}", "a", "{", "}">>
        /\ calls[p].result.s = <<"v", "X", "a", "Y">>

----------------------------------------------------------------------------
(* Properties of F on an index that the arguments do not reach *)

\* the placeholder has an explicit index or is "{}", and holds no condition
Unnamed(ph) == ph.name = <<>> /\ ph.condition = <<>>

\* the text of a placeholder with an explicit index: that argument, or the
\* sentinel when the index is not below len(args)
IndexedText(as, ph, auto) ==
    IF ph.position >= 0
    THEN (IF ph.position < Len(as) THEN PlainText(At(as, ph.position)) ELSE NilText)
    ELSE AutoText(as, auto)

\* the auto-increment counter after a placeholder: only "{}" moves it
AutoAfter(ph, auto) == IF ph.position >= 0 THEN auto ELSE auto + 1

RECURSIVE IndexedRendered(_, _, _, _)
\* literal i, the text of placeholder i, and so on; then the literals left
IndexedRendered(pf, as, i, auto) ==
    IF i >= Len(pf.literals) THEN <<>>
    ELSE IF i >= Len(pf.placeholders)
    THEN At(pf.literals, i) \o IndexedRendered(pf, as, i + 1, auto)
    ELSE At(pf.literals, i) \o IndexedText(as, At(pf.placeholders, i), auto)
         \o IndexedRendered(pf, as, i + 1, AutoAfter(At(pf.placeholders, i), auto))

\* p's call has returned from the positional loop, on a format of unnamed
\* placeholders with a literal before each and no escaped brace
IndexedDone(p) ==
    /\ Positional(p)
    /\ LiteralBeforeEach(calls[p].format)
    /\ \A i \in 1..Len(calls[p].pf.placeholders) : Unnamed(calls[p].pf.placeholders[i])

\* C27: a placeholder with an explicit index that is not below len(args)
\* renders the missing-value sentinel, renders no other argument in its
\* place, and leaves the auto-increment argument counter unchanged
C27_MissingIndexSentinel ==
    \A p \in DOMAIN calls :
        IndexedDone(p) =>
            calls[p].result.s = IndexedRendered(calls[p].pf, calls[p].args, 0, 0)

\* F("v{0}a{2}a{}a", "X", "Y") has returned "vXaXaYa": the first argument
\* in place of the missing third, and the counter moved
C27_Witness ==
    \E p \in DOMAIN calls :
        /\ IndexedDone(p)
        /\ calls[p].format = MissingFormat
        /\ calls[p].args = <<Str(<<"X">>), Str(<<"Y">>)>>
        /\ calls[p].result.s = <<"v", "X", "a", "X", "a", "Y", "a">>

\* every explicit index of p's call is below len(args)
IndicesInRange(p) ==
    \A i \in 1..Len(calls[p].pf.placeholders) :
        calls[p].pf.placeholders[i].position < Len(calls[p].args)

\* C27's rendering when every explicit index is in range
C27_InRange ==
    \A p \in DOMAIN calls :
        (IndexedDone(p) /\ IndicesInRange(p)) =>
            calls[p].result.s = IndexedRendered(calls[p].pf, calls[p].args, 0, 0)

\* F("v{0}a{2}a{}a", 1, 2, 3) has returned "v1a3a1a"
C27_AllPresent ==
    \E p \in DOMAIN calls :
        /\ IndexedDone(p)
        /\ calls[p].format = MissingFormat
        /\ calls[p].result.s = <<"v", "1", "a", "3", "a", "1", "a">>

----------------------------------------------------------------------------
(* Properties of the regex parse after escaped braces *)

\* fmt has the two-token text pair at index i
PairAt(fmt, i, pair) ==
    i + 1 < Len(fmt) /\ At(fmt, i) = pair[1] /\ At(fmt, i + 1) = pair[2]

RECURSIVE RawsFrom(_, _)
\* the placeholders of fmt from index i on, braces included, "{{" and "}}"
\* being escaped braces
RawsFrom(fmt, i) ==
    IF i >= Len(fmt) THEN <<>>
    ELSE IF PairAt(fmt, i, <<"{", "{">>) \/ PairAt(fmt, i, <<"}", "}">>)
    THEN RawsFrom(fmt, i + 2)
    ELSE IF At(fmt, i) = "{" /\ IndexByte(fmt, "}", i) # -1
    THEN <<Slice(fmt, i, IndexByte(fmt, "}", i) + 1)>>
         \o RawsFrom(fmt, IndexByte(fmt, "}", i) + 1)
    ELSE RawsFrom(fmt, i + 1)

\* a placeholder text without its braces
Inside(raw) == SubSeq(raw, 2, Len(raw) - 1)

\* the placeholders parse has to return for the texts raws
ParsedFrom(raws) ==
    [i \in 1..Len(raws) |-> [parsePlaceholder(Inside(raws[i])) EXCEPT !.raw = raws[i]]]

\* C28: in the regex parse, the content parsed for each placeholder is
\* exactly the text between that placeholder's own braces in the format
\* string, also when escaped braces occur earlier in the format;
\* F("{{n}}={n}", {n: N}) is "{n}=N"
C28_OwnBraces ==
    \A p \in DOMAIN calls :
        Done(p, "F") =>
            /\ calls[p].pf.placeholders = ParsedFrom(RawsFrom(calls[p].format, 0))
            /\ (calls[p].format = EscapedNameFormat /\ calls[p].args = <<MapAnyV>>)
                  => calls[p].result.s = <<"{", "n", "}", "=", "N">>

\* F("{{n}}={n}", {n: N}) has returned "{n}=<nil>", the placeholder parsed
\* from the text two tokens to the left of its own
C28_Witness ==
    \E p \in DOMAIN calls :
        /\ Done(p, "F")
        /\ calls[p].format = EscapedNameFormat
        /\ calls[p].args = <<MapAnyV>>
        /\ calls[p].pf.placeholders[1].raw = <<"}", "=", "{">>
        /\ calls[p].result.s = <<"{", "n", "}", "=", "<nil>">>

\* no escaped brace stands before the last placeholder of fmt
NoEscapeBefore(fmt) ==
    \A i \in 0..(Len(fmt) - 1), j \in 0..(Len(fmt) - 1) :
        (PairAt(fmt, i, <<"{", "{">>) /\ At(fmt, j) = "{" /\ j > i + 1) => PairAt(fmt, j, <<"{", "{">>)

\* C28 for the formats whose placeholders all stand before the escaped braces
C28_OwnBracesBeforeEscapes ==
    \A p \in DOMAIN calls :
        (Done(p, "F") /\ NoEscapeBefore(calls[p].format)) =>
            calls[p].pf.placeholders = ParsedFrom(RawsFrom(calls[p].format, 0))

\* F("v{n}{{a}}", {n: N}) has returned "vN{a}"
C28_EscapesAfter ==
    \E p \in DOMAIN calls :
        /\ Done(p, "F")
        /\ calls[p].format = <<"v", "{", "n", "}", "{", "{", "a", "}", "}">>
        /\ calls[p].pf.placeholders[1].raw = <<"{", "n", "}">>
        /\ calls[p].result.s = <<"v", "N", "{", "a", "}">>

----------------------------------------------------------------------------
(* Properties of resolving a name that no struct has *)

\* the names that are a field of no struct type
UnknownNames == { <<"Missing">> }

RECURSIVE MissesUnknown(_, _)
\* following the chain fields from v through direct fields and pointers
\* arrives at a struct, and the next component is a name no struct has
MissesUnknown(v, fields) ==
    CASE v.k = "ptr" -> ~v.isnil /\ MissesUnknown(v.elem, fields)
      [] v.k = "struct" /\ fields # <<>> ->
           IF Head(fields) \in DOMAIN v.f
           THEN MissesUnknown(v.f[Head(fields)], Tail(fields))
           ELSE Head(fields) \in UnknownNames
      [] OTHER -> FALSE

RECURSIVE StructAtMiss(_, _)
\* the type of the struct at which MissesUnknown(v, fields) arrives
StructAtMiss(v, fields) ==
    IF v.k = "ptr" THEN StructAtMiss(v.elem, fields)
    ELSE IF Head(fields) \in DOMAIN v.f THEN StructAtMiss(v.f[Head(fields)], Tail(fields))
    ELSE v.t

\* C29: resolving a field name that a struct does not have terminates and
\* yields <invalid field> for every struct type, a type that holds a pointer
\* to its own type included
C29_MissingFieldTerminates ==
    (pc = "done" /\ MissesUnknown(args[1], parsed.placeholders[1].FieldChain)) =>
        ~result.panic /\ result.s = InvalidField

\* {0.Missing} on a list node: the call has not returned
C29_Witness ==
    /\ pc = "done"
    /\ args = <<NodeV(NilPtr("Node"))>>
    /\ parsed.placeholders[1].FieldChain = << <<"Missing">> >>
    /\ result.panic

\* C29 for the structs that are no list node
C29_MissingFieldOfOthers ==
    (/\ pc = "done"
     /\ MissesUnknown(args[1], parsed.placeholders[1].FieldChain)
     /\ StructAtMiss(args[1], parsed.placeholders[1].FieldChain) # "Node") =>
        ~result.panic /\ result.s = InvalidField

\* {0.Detail.Missing} on a Person renders <invalid field>
C29_PersonMisses ==
    /\ pc = "done"
    /\ args = <<PersonV(Ptr(DetailV))>>
    /\ parsed.placeholders[1].FieldChain = << <<"Detail">>, <<"Missing">> >>
    /\ result.s = InvalidField

----------------------------------------------------------------------------
(* Properties of writeInt *)

\* C30: writeInt appends the correct signed decimal text for every 64-bit
\* integer, the most negative one included, whose negation overflows back to
\* itself
C30_SignedDecimal ==
    pc = "done" => ~result.panic /\ result.s = FormatInt(args[1].n, 10)

\* the most negative integer has been written as a lone minus sign
C30_Witness ==
    /\ pc = "done"
    /\ args = <<IntV(MinInt64)>>
    /\ result.s = <<"-">>

\* C30 for every integer but the most negative one
C30_DecimalAboveMin ==
    (pc = "done" /\ args[1].n # MinInt64) => result.s = FormatInt(args[1].n, 10)

\* the integer next to the most negative one is written in full
C30_NextToMin ==
    /\ pc = "done"
    /\ args = <<IntV(MinInt64 + 1)>>
    /\ result.s = <<"-", "1", "2", "7">>

====
